---- MODULE Spec2Model ----
(***************************************************************************)
(* Model of ReactiveStorage (src/script/ReactiveStorage.ts) and of its      *)
(* variant with definition chains (src/unnamed/part_008).                  *)
(*                                                                         *)
(* The JavaScript heap is modelled explicitly: objects are records with an *)
(* ordered list of properties, a property is either a data property or an *)
(* accessor property bound to the closure of one #register call (a         *)
(* "binding").  A property read or write on the heap runs the accessor of  *)
(* the property, so that chains of accessors (an endpoint that is itself a *)
(* front object) behave as in the code.                                    *)
(***************************************************************************)
EXTENDS Integers, Sequences, FiniteSets, TLC

\* ---------------------------------------------------------------------------
\* Bounds
\* ---------------------------------------------------------------------------
MaxOps == 3
\* storages the caller holds besides the current one
MaxStores == 2
\* nested set-accessor calls the call stack holds; one more raises a RangeError
MaxStack == 6

\* ---------------------------------------------------------------------------
\* JavaScript values
\* ---------------------------------------------------------------------------
Undef == [t |-> "undef", v |-> 0]
Null == [t |-> "null", v |-> 0]
Num(n) == [t |-> "num", v |-> n]
Bool(b) == [t |-> "bool", v |-> b]
\* strings are numbered: 0 is '', 1 is 'x', 2 is 's'
Str(i) == [t |-> "str", v |-> i]
Ref(a) == [t |-> "ref", v |-> a]
NaN == [t |-> "nan", v |-> 0]

IsRef(x) == x.t = "ref"
IsNullish(x) == x.t \in {"undef", "null"}
IsPrimitive(x) == x.t # "ref"

\* ToBoolean
Truthy(x) ==
  CASE x.t \in {"undef", "null", "nan"} -> FALSE
    [] x.t \in {"num", "bool", "str"} -> x.v # 0
    [] OTHER -> TRUE

\* typeof x === 'object'
TypeofObject(x) == x.t \in {"ref", "null"}

\* ---------------------------------------------------------------------------
\* Heap objects
\* ---------------------------------------------------------------------------
\* kind: "obj" (prototype Object.prototype), "arr" (array), "inst" (class
\* instance), "map" (Map; props holds its entries)
NewObject(kind) == [kind |-> kind, props |-> <<>>]

\* a property created by assignment
DataProp(k, x) ==
  [key |-> k, acc |-> FALSE, val |-> x, b |-> 0, enum |-> TRUE, conf |-> TRUE]

\* Object.defineProperty(target, key, {...}), written for a bug that ignores
\* the enumerable option
AccessorProp_AlwaysEnumerable(k, id, e) ==
  [key |-> k, acc |-> TRUE, val |-> Undef, b |-> id, enum |-> TRUE, conf |-> TRUE]

\* Object.defineProperty(target, key, { configurable: true, enumerable, get, set })
AccessorProp(k, id, e) ==
  [key |-> k, acc |-> TRUE, val |-> Undef, b |-> id, enum |-> e, conf |-> TRUE]

\* index of the own property k in a property list, 0 when absent
PropIdx(props, k) ==
  IF \E i \in 1..Len(props) : props[i].key = k
  THEN CHOOSE i \in 1..Len(props) : props[i].key = k
  ELSE 0

\* define or redefine an own property, keeping the position of an existing one
PutProp(props, p) ==
  LET i == PropIdx(props, p.key)
  IN IF i = 0 THEN Append(props, p) ELSE [props EXCEPT ![i] = p]

RemoveProp(props, k) ==
  SelectSeq(props, LAMBDA p : p.key # k)

\* the machine: heap, bindings (closures of #register), setter and postSetter
\* hook log, getter hook log, thrown flag, set accessors on the call stack
Alloc(M, kind) == [M EXCEPT !.heap = Append(@, NewObject(kind))]
Fresh(M) == Len(M.heap) + 1

Throw(M) == [M EXCEPT !.err = TRUE]

\* ---------------------------------------------------------------------------
\* Configuration (RegistrationOptions)
\* ---------------------------------------------------------------------------
\* hooks: "unset", "pass" (observes, returns undefined), "veto" (returns true),
\* "subst" (calls set(Sub), returns true)
\* depthFilter: "unset", "literal" (Filter.objectLiteralOrArray), "any"
\* enumerable: "unset", "true", "false"
\* depth: [t |-> "unset" | "num" | "inf" | "cfg", n, c] with c = <<nested config>>
NoDepth == [t |-> "unset", n |-> 0, c |-> <<>>]
DepthNum(n) == [t |-> "num", n |-> n, c |-> <<>>]
DepthInf == [t |-> "inf", n |-> 0, c |-> <<>>]
DepthCfg(c) == [t |-> "cfg", n |-> 0, c |-> <<c>>]

EmptyConfig ==
  [target |-> Undef, endpoint |-> Undef, depthFilter |-> "unset",
   enumerable |-> "unset", depth |-> NoDepth,
   setter |-> "unset", getter |-> "unset", postSetter |-> "unset"]

\* value a "subst" setter hook passes to set()
Sub == Str(2)

\* ToBoolean of config.depth, written for a bug that takes 0 as truthy
DepthTruthy_ZeroIsTruthy(d) == d.t # "unset"

\* ToBoolean of config.depth (a number, Infinity, an object or undefined)
DepthTruthy(d) ==
  CASE d.t = "unset" -> FALSE
    [] d.t = "num" -> d.n # 0
    [] OTHER -> TRUE

\* a ??= b, written for a bug that always takes the parent's value
Coalesce_KeepParent(a, b) == b

\* a ??= b
Coalesce(a, b) == IF a = "unset" THEN b ELSE a

\* Filter.objectLiteralOrArray, written for a bug that accepts every object
FilterObjectLiteralOrArray_AnyObject(M, x) == x.t = "ref"

\* Filter.objectLiteralOrArray / Filter.any applied to a value with typeof 'object'
FilterObjectLiteralOrArray(M, x) ==
  /\ x.t = "ref"
  /\ M.heap[x.v].kind \in {"arr", "obj"}

DepthFilter(f, M, x) ==
  IF f = "any" THEN TRUE ELSE FilterObjectLiteralOrArray(M, x)

\* the depthOpts block of #register: [has, opts, custom]
DepthOptsOf(config, recursive) ==
  IF ~(DepthTruthy(config.depth) \/ recursive)
  THEN [has |-> FALSE, opts |-> EmptyConfig, custom |-> FALSE]
  ELSE
    LET base ==
          IF config.depth.t # "cfg"
          THEN [EmptyConfig EXCEPT !.depth =
                  IF recursive THEN DepthInf
                  ELSE IF config.depth.t = "num" THEN DepthNum(config.depth.n - 1)
                  ELSE IF config.depth.t = "inf" THEN DepthInf
                  ELSE NoDepth]
          ELSE config.depth.c[1]
        opts == [base EXCEPT
                   !.setter = Coalesce(@, config.setter),
                   !.getter = Coalesce(@, config.getter),
                   !.postSetter = Coalesce(@, config.postSetter),
                   !.enumerable = Coalesce(@, config.enumerable),
                   !.depthFilter = Coalesce(@, config.depthFilter)]
    IN [has |-> TRUE, opts |-> opts, custom |-> DepthTruthy(base.depth)]

\* ---------------------------------------------------------------------------
\* Property access on the heap
\* ---------------------------------------------------------------------------
RECURSIVE ReadProp(_, _, _)
RECURSIVE RawGetter(_, _)
RECURSIVE WriteProp(_, _, _, _)
RECURSIVE RunSet(_, _, _)
RECURSIVE RegisterLoop(_, _, _, _, _)
RECURSIVE Register(_, _, _, _, _, _)
RECURSIVE Register008(_, _, _, _, _, _)

\* own characters of the model's strings: 'x'[0] is 'x', 's'[0] is 's'
StringIndex(x, k) ==
  IF x.t = "str" /\ x.v # 0 /\ k = "0" THEN x ELSE Undef

\* #makeGetter(endpoint, key)()
MakeGetter(M, endpoint, k) ==
  IF ~IsRef(endpoint) THEN StringIndex(endpoint, k)
  ELSE IF M.heap[endpoint.v].kind = "map"
  THEN LET ps == M.heap[endpoint.v].props
           i == PropIdx(ps, k)
       IN IF i = 0 THEN Undef ELSE ps[i].val
  ELSE ReadProp(M, endpoint, k)

\* the binding's current `getter` closure
RawGetter(M, id) ==
  LET b == M.binds[id]
  IN IF b.mode = "deep" THEN b.depthOpts.target
     ELSE MakeGetter(M, b.endpoint, b.key)

\* Math.round(x / n) * n for a number x >= 0, NaN for undefined
RoundTo(n, x) ==
  IF x.t = "num" THEN Num(((2 * x.v + n) \div (2 * n)) * n) ELSE NaN

\* what the getter hook h returns for the value val it is given:
\* "pass" and "pass2" observe (undefined), "null" returns null, "zero" 0,
\* "no" false, "empty" '', "round5" and "round50" round a number
GetterHook(h, val) ==
  CASE h = "null" -> Null
    [] h = "zero" -> Num(0)
    [] h = "no" -> Bool(0)
    [] h = "empty" -> Str(0)
    [] h = "round5" -> RoundTo(5, val)
    [] h = "round50" -> RoundTo(50, val)
    [] OTHER -> Undef

\* the accessor's get, written for a bug that uses || in place of ??
AccessorGet_Truthy(M, id) ==
  LET b == M.binds[id]
      r == IF b.getter = "unset" THEN Undef ELSE GetterHook(b.getter, RawGetter(M, id))
  IN IF Truthy(r) THEN r ELSE RawGetter(M, id)

\* the accessor's get: customGetter?.({ val: getter(), path }) ?? getter()
AccessorGet(M, id) ==
  LET b == M.binds[id]
      r == IF b.getter = "unset" THEN Undef ELSE GetterHook(b.getter, RawGetter(M, id))
  IN IF IsNullish(r) THEN RawGetter(M, id) ELSE r

\* what o[k] finds on the prototype chain when k is no own property: the
\* constructor function of the object's kind (a value of typeof 'function',
\* numbered per kind), nothing for the other keys used here
FromPrototype(kind, k) ==
  IF k = "constructor"
  THEN [t |-> "fn", v |-> CASE kind = "obj" -> 0
                            [] kind = "arr" -> 1
                            [] kind = "map" -> 2
                            [] OTHER -> 3]
  ELSE Undef

\* o[k]
ReadProp(M, o, k) ==
  IF ~IsRef(o) THEN StringIndex(o, k)
  ELSE LET ps == M.heap[o.v].props
           i == PropIdx(ps, k)
       IN IF i = 0 THEN FromPrototype(M.heap[o.v].kind, k)
          ELSE IF ps[i].acc THEN AccessorGet(M, ps[i].b)
          ELSE ps[i].val

\* o[k] = x, in strict mode
WriteProp(M, o, k, x) ==
  IF M.err THEN M
  ELSE IF ~IsRef(o) THEN Throw(M)
  ELSE LET ps == M.heap[o.v].props
           i == PropIdx(ps, k)
       IN IF i # 0 /\ ps[i].acc THEN RunSet(M, ps[i].b, x)
          ELSE IF i # 0 THEN [M EXCEPT !.heap[o.v].props[i].val = x]
          ELSE [M EXCEPT !.heap[o.v].props = Append(@, DataProp(k, x))]

RECURSIVE ReadCalls(_, _, _)
RECURSIVE RawCalls(_, _)

\* the getter hook calls made by the binding's `getter` closure
RawCalls(M, id) ==
  LET b == M.binds[id]
  IN IF b.mode = "deep" \/ ~IsRef(b.endpoint) THEN <<>>
     ELSE IF M.heap[b.endpoint.v].kind = "map" THEN <<>>
     ELSE ReadCalls(M, b.endpoint, b.key)

\* the getter hook calls made by the accessor's get, in order:
\* customGetter?.({ val: getter(), path }) ?? getter(); the variant with
\* definition chains calls getter() once (part_008:201-205)
AccessorGetCalls(M, id) ==
  LET b == M.binds[id]
      raw == RawGetter(M, id)
  IN IF b.getter = "unset" THEN RawCalls(M, id)
     ELSE RawCalls(M, id)
          \o <<[path |-> b.path, val |-> raw, fn |-> b.getter, on |-> b.target]>>
          \o (IF ~b.once /\ IsNullish(GetterHook(b.getter, raw))
              THEN RawCalls(M, id) ELSE <<>>)

\* the getter hook calls made by reading o[k]
ReadCalls(M, o, k) ==
  IF ~IsRef(o) THEN <<>>
  ELSE LET ps == M.heap[o.v].props
           i == PropIdx(ps, k)
       IN IF i # 0 /\ ps[i].acc THEN AccessorGetCalls(M, ps[i].b) ELSE <<>>

\* the binding's `getter` closure is called: its getter hook calls are logged
CallGetter(M, id) == [M EXCEPT !.gets = @ \o RawCalls(M, id)]

\* what a deep comparison sees of a value: its kind and, key by key, what its
\* own properties read; an object met again below itself is seen as a cycle
View(M, x) ==
  LET RECURSIVE In(_, _)
      In(y, above) ==
        IF ~IsRef(y) THEN <<y>>
        ELSE IF y.v \in above THEN <<[t |-> "cycle", v |-> 0]>>
        ELSE LET ps == M.heap[y.v].props
             IN <<M.heap[y.v].kind,
                  [i \in 1..Len(ps) |->
                     <<ps[i].key, In(ReadProp(M, y, ps[i].key), above \cup {y.v})>>]>>
  IN In(x, {})

\* #makeSetter(endpoint, key)(x), written for a bug that stores truthy values only
MakeSetter_SkipFalsy(M, endpoint, k, x) ==
  IF M.err \/ ~Truthy(x) THEN M
  ELSE IF IsRef(endpoint) /\ M.heap[endpoint.v].kind = "map"
  THEN [M EXCEPT !.heap[endpoint.v].props = PutProp(@, DataProp(k, x))]
  ELSE WriteProp(M, endpoint, k, x)

\* #makeSetter(endpoint, key)(x)
MakeSetter(M, endpoint, k, x) ==
  IF M.err THEN M
  ELSE IF IsRef(endpoint) /\ M.heap[endpoint.v].kind = "map"
  THEN [M EXCEPT !.heap[endpoint.v].props = PutProp(@, DataProp(k, x))]
  ELSE WriteProp(M, endpoint, k, x)

\* one entry of the log: a hook call ("set", "post") with the arguments it got
\* and the hook function called, or the default write ("store") of a binding;
\* seen is what a deep comparison of prevVal shows at that moment, on is the
\* object the accessor is defined on
LogEvent(M, h, b, x, prevVal) ==
  [M EXCEPT !.log = Append(@, [h |-> h, path |-> b.path, val |-> x,
                                prevVal |-> prevVal, initial |-> b.initial,
                                on |-> b.target,
                                fn |-> CASE h = "set" -> b.setter
                                         [] h = "post" -> b.postSetter
                                         [] OTHER -> "default",
                                seen |-> View(M, prevVal)])]

\* hooks that observe and return undefined
Observing == {"pass", "pass2"}

\* setter(val): the default write of the binding
DefaultWrite(M, b, x, prevVal) ==
  MakeSetter(LogEvent(M, "store", b, x, prevVal), b.endpoint, b.key, x)

\* if (!customSetter?.({ val, prevVal, initial, path, set: setter })) setter(val)
\* (a hook that is not a function, like false, makes the call throw, and so
\* does the hook "throw")
SetterPhase(M, id, x, prevVal) ==
  LET b == M.binds[id]
      \* the hook "reenter", called for a top-level key other than bar, reads
      \* front[key] and, when bar is registered, assigns front.bar = 5
      Reenter(M1) ==
        IF /\ Len(b.path) = 1
           /\ b.key # "bar"
           /\ \E i \in 1..Len(M1.heap[b.target.v].props) :
                /\ M1.heap[b.target.v].props[i].key = "bar"
                /\ M1.heap[b.target.v].props[i].acc
        THEN WriteProp([M1 EXCEPT !.gets = @ \o ReadCalls(M1, b.target, b.key)],
                       b.target, "bar", Num(5))
        ELSE M1
  IN CASE b.setter = "unset" -> DefaultWrite(M, b, x, prevVal)
       [] b.setter \in Observing ->
            DefaultWrite(LogEvent(M, "set", b, x, prevVal), b, x, prevVal)
       [] b.setter = "reenter" ->
            DefaultWrite(Reenter(LogEvent(M, "set", b, x, prevVal)), b, x, prevVal)
       [] b.setter = "veto" -> LogEvent(M, "set", b, x, prevVal)
       [] b.setter = "subst" ->
            DefaultWrite(LogEvent(M, "set", b, x, prevVal), b, Sub, prevVal)
       [] OTHER -> Throw(M)

\* customPostSetter?.(...), written for a bug that reads prevVal again after
\* the write
PostSetterPhase_PrevValAfterWrite(M, id, x, prevVal) ==
  LET b == M.binds[id]
      Assign(M1) ==
        IF b.postSetter = "assign" /\ Len(b.path) = 1 /\ x # Num(9)
        THEN WriteProp(M1, b.target, b.key, Num(9))
        ELSE M1
  IN IF M.err \/ b.postSetter = "unset" THEN M
     ELSE IF b.postSetter \in {"false", "throw"} THEN Throw(M)
     ELSE Assign(LogEvent(M, "post", b, x, RawGetter(M, id)))

\* customPostSetter?.({ val, prevVal, initial, path })
\* (a hook that is not a function, like false, or that throws ends the call)
PostSetterPhase(M, id, x, prevVal) ==
  LET b == M.binds[id]
      \* the hook "assign", called for a top-level key with a value other than
      \* 9, assigns front[key] = 9
      Assign(M1) ==
        IF b.postSetter = "assign" /\ Len(b.path) = 1 /\ x # Num(9)
        THEN WriteProp(M1, b.target, b.key, Num(9))
        ELSE M1
  IN IF M.err \/ b.postSetter = "unset" THEN M
     ELSE IF b.postSetter \in {"false", "throw"} THEN Throw(M)
     ELSE Assign(LogEvent(M, "post", b, x, prevVal))

\* keys visited by `for (const propKey in val)`
ForInKeys(M, x) ==
  IF ~IsRef(x) THEN <<>>
  ELSE LET ps == SelectSeq(M.heap[x.v].props, LAMBDA p : p.enum)
       IN [i \in 1..Len(ps) |-> ps[i].key]

\* the body of the for-in loop, written for a bug that drops `recursive`
RegisterLoop_DropRecursive(M, id, x, keys, i) ==
  IF M.err \/ i > Len(keys) THEN M
  ELSE LET b == M.binds[id]
           M1 == Register(M, keys[i], ReadProp(M, x, keys[i]), b.depthOpts,
                          FALSE, Append(b.path, keys[i]))
       IN RegisterLoop(M1, id, x, keys, i + 1)

\* the body of the for-in loop of the set accessor, from the i-th key on
\* (the loop over Object.keys(val) in the variant with definition chains)
RegisterLoop(M, id, x, keys, i) ==
  IF M.err \/ i > Len(keys) THEN M
  ELSE LET b == M.binds[id]
           M1 == IF b.once
                 THEN Register008(M, keys[i], ReadProp(M, x, keys[i]), b.depthOpts,
                                  b.recursive, Append(b.path, keys[i]))
                 ELSE Register(M, keys[i], ReadProp(M, x, keys[i]), b.depthOpts,
                               b.recursive, Append(b.path, keys[i]))
       IN RegisterLoop(M1, id, x, keys, i + 1)

\* Array.isArray(val) ? [] : {}, written for a bug that always takes {}
DepthTarget_AlwaysObject(M, x) == "obj"

\* Array.isArray(val) ? [] : {}
DepthTarget(M, x) ==
  IF IsRef(x) /\ M.heap[x.v].kind = "arr" THEN "arr" ELSE "obj"

\* the depth expansion of the set accessor (the `if` branch)
DepthExpand(M, id, x) ==
  LET b == M.binds[id]
      ep == IF ~b.custom THEN RawGetter(M, id) ELSE b.depthOpts.endpoint
      Mg == IF ~b.custom THEN CallGetter(M, id) ELSE M
      t == Fresh(M)
      Loop(M1) == RegisterLoop(M1, id, x, ForInKeys(M1, x), 1)
      Deep(M2) == IF M2.err THEN M2 ELSE [M2 EXCEPT !.binds[id].mode = "deep"]
  IN Deep(Loop([Alloc(Mg, DepthTarget(M, x)) EXCEPT
                  !.binds[id].depthOpts.endpoint = ep,
                  !.binds[id].depthOpts.target = Ref(t)]))

\* the set accessor defined by #register
RunSet(M, id, x) ==
  IF M.err THEN M
  ELSE IF M.stack >= MaxStack THEN Throw(M)
  ELSE LET b == M.binds[id]
           prevVal == RawGetter(M, id)
           Expand(M1) ==
             IF M1.err THEN M1
             ELSE IF b.hasDepth /\ TypeofObject(x) /\ DepthFilter(b.depthFilter, M1, x)
             THEN DepthExpand(M1, id, x)
             ELSE [M1 EXCEPT !.binds[id].mode = "slot"]
           Return(M2) == IF M2.err THEN M2 ELSE [M2 EXCEPT !.stack = M.stack]
       IN Return(PostSetterPhase(
                   Expand(SetterPhase(CallGetter([M EXCEPT !.stack = @ + 1], id),
                                      id, x, prevVal)),
                   id, x, prevVal))

\* if (initialValue !== undefined), written for a bug that tests truthiness
HasInitialValue_Truthy(x) == Truthy(x)

\* if (initialValue !== undefined)
HasInitialValue(x) == x # Undef

\* static #register(key, initialValue, config, recursive, path)
Register(M, k, initialValue, config, recursive, path) ==
  IF M.err THEN M
  ELSE LET Mt == IF IsNullish(config.target) THEN Alloc(M, "obj") ELSE M
           target == IF IsNullish(config.target) THEN Ref(Fresh(M)) ELSE config.target
           Me == IF IsNullish(config.endpoint) THEN Alloc(Mt, "obj") ELSE Mt
           endpoint == IF IsNullish(config.endpoint) THEN Ref(Fresh(Mt)) ELSE config.endpoint
           d == DepthOptsOf(config, recursive)
           id == Len(Me.binds) + 1
           b == [key |-> k, path |-> path, target |-> target, endpoint |-> endpoint,
                 depthFilter |-> Coalesce(config.depthFilter, "literal"),
                 getter |-> config.getter, setter |-> config.setter,
                 postSetter |-> config.postSetter,
                 mode |-> "slot", hasDepth |-> d.has, depthOpts |-> d.opts,
                 custom |-> d.custom, initial |-> TRUE, recursive |-> recursive,
                 once |-> FALSE]
       IN IF ~IsRef(target) THEN Throw(Me)
          ELSE LET M1 == [Me EXCEPT
                            !.binds = Append(@, b),
                            !.heap[target.v].props =
                               PutProp(@, AccessorProp(k, id, config.enumerable # "false"))]
                   Done(M2) ==
                     IF M2.err THEN M2 ELSE [M2 EXCEPT !.binds[id].initial = FALSE]
               IN Done(IF HasInitialValue(initialValue)
                       THEN WriteProp(M1, target, k, initialValue)
                       ELSE M1)

\* ---------------------------------------------------------------------------
\* The variant with definition chains (src/unnamed/part_008)
\* ---------------------------------------------------------------------------
\* the depthOpts block of #register: options are inherited with ||= and a
\* nested endpoint makes the depth endpoint custom
DepthOptsOf008(config, recursive) ==
  IF ~(DepthTruthy(config.depth) \/ recursive)
  THEN [has |-> FALSE, opts |-> EmptyConfig, custom |-> FALSE]
  ELSE
    LET Or(a, b) == IF a \in {"unset", "false"} THEN b ELSE a
        base ==
          IF config.depth.t # "cfg"
          THEN [EmptyConfig EXCEPT !.depth =
                  IF recursive THEN DepthInf
                  ELSE IF config.depth.t = "num" THEN DepthNum(config.depth.n - 1)
                  ELSE NoDepth]
          ELSE config.depth.c[1]
        opts == [base EXCEPT
                   !.setter = Or(@, config.setter),
                   !.getter = Or(@, config.getter),
                   !.postSetter = Or(@, config.postSetter),
                   !.enumerable = Or(@, config.enumerable),
                   !.depthFilter = Or(@, config.depthFilter)]
    IN [has |-> TRUE, opts |-> opts, custom |-> Truthy(base.endpoint)]

\* static #register of the variant, written for a bug whose get accessor
\* calls getter() again when the getter hook returns undefined
Register008_GetterTwice(M, k, initialValue, config, recursive, path) ==
  IF M.err THEN M
  ELSE LET Mt == IF ~Truthy(config.target) THEN Alloc(M, "obj") ELSE M
           target == IF ~Truthy(config.target) THEN Ref(Fresh(M)) ELSE config.target
           Me == IF ~Truthy(config.endpoint) THEN Alloc(Mt, "obj") ELSE Mt
           endpoint == IF ~Truthy(config.endpoint) THEN Ref(Fresh(Mt)) ELSE config.endpoint
           d == DepthOptsOf008(config, recursive)
           id == Len(Me.binds) + 1
           b == [key |-> k, path |-> path, target |-> target, endpoint |-> endpoint,
                 depthFilter |-> Coalesce(config.depthFilter, "literal"),
                 getter |-> config.getter, setter |-> config.setter,
                 postSetter |-> config.postSetter,
                 mode |-> "slot", hasDepth |-> d.has, depthOpts |-> d.opts,
                 custom |-> d.custom, initial |-> TRUE, recursive |-> recursive,
                 once |-> FALSE]
       IN IF ~IsRef(target) THEN Throw(Me)
          ELSE LET M1 == [Me EXCEPT
                            !.binds = Append(@, b),
                            !.heap[target.v].props = PutProp(@, AccessorProp(k, id, TRUE))]
                   Done(M2) ==
                     IF M2.err THEN M2 ELSE [M2 EXCEPT !.binds[id].initial = FALSE]
               IN Done(IF HasInitialValue(initialValue)
                       THEN WriteProp(M1, target, k, initialValue)
                       ELSE M1)

\* static #register(key, initialValue, config, recursive, path) of the variant:
\* defaults are taken with ||, the property is always enumerable
\* (config.enumerable || true) and the get accessor calls getter() once
Register008(M, k, initialValue, config, recursive, path) ==
  IF M.err THEN M
  ELSE LET Mt == IF ~Truthy(config.target) THEN Alloc(M, "obj") ELSE M
           target == IF ~Truthy(config.target) THEN Ref(Fresh(M)) ELSE config.target
           Me == IF ~Truthy(config.endpoint) THEN Alloc(Mt, "obj") ELSE Mt
           endpoint == IF ~Truthy(config.endpoint) THEN Ref(Fresh(Mt)) ELSE config.endpoint
           d == DepthOptsOf008(config, recursive)
           id == Len(Me.binds) + 1
           b == [key |-> k, path |-> path, target |-> target, endpoint |-> endpoint,
                 depthFilter |-> Coalesce(config.depthFilter, "literal"),
                 getter |-> config.getter, setter |-> config.setter,
                 postSetter |-> config.postSetter,
                 mode |-> "slot", hasDepth |-> d.has, depthOpts |-> d.opts,
                 custom |-> d.custom, initial |-> TRUE, recursive |-> recursive,
                 once |-> TRUE]
       IN IF ~IsRef(target) THEN Throw(Me)
          ELSE LET M1 == [Me EXCEPT
                            !.binds = Append(@, b),
                            !.heap[target.v].props = PutProp(@, AccessorProp(k, id, TRUE))]
                   Done(M2) ==
                     IF M2.err THEN M2 ELSE [M2 EXCEPT !.binds[id].initial = FALSE]
               IN Done(IF HasInitialValue(initialValue)
                       THEN WriteProp(M1, target, k, initialValue)
                       ELSE M1)

\* static #registerGeneric, written for a bug that registers the keys in the
\* first configuration only
RegisterGeneric008_FirstOnly(M, keys, initialValue, opts, recursive) ==
  LET RECURSIVE Keys(_, _, _)
      Keys(S, c, j) ==
        IF j > Len(keys) THEN S
        ELSE Keys(Register008(S, keys[j], initialValue, c, recursive, <<keys[j]>>),
                  c, j + 1)
  IN Keys(M, opts[1], 1)

\* static #registerGeneric(key, initialValue, config, recursive): every key is
\* registered in every configuration of the chain, first to last
RegisterGeneric008(M, keys, initialValue, opts, recursive) ==
  LET RECURSIVE Keys(_, _, _)
      Keys(S, c, j) ==
        IF j > Len(keys) THEN S
        ELSE Keys(Register008(S, keys[j], initialValue, c, recursive, <<keys[j]>>),
                  c, j + 1)
      RECURSIVE Layers(_, _)
      Layers(S, i) ==
        IF i > Len(opts) THEN S ELSE Layers(Keys(S, opts[i], 1), i + 1)
  IN Layers(M, 1)

\* static #prepareConfig(config), written for a bug that keeps the endpoint a
\* non-last configuration supplies
PrepareConfig008_KeepSupplied(M, input) ==
  LET cs == input.cs
      N == Len(cs)
      RECURSIVE Loop(_, _)
      \* S.opts are the elements of the array, S.now the caller's objects
      Loop(S, i) ==
        IF i = 0 THEN S
        ELSE LET copy == [S.opts[i] EXCEPT
                            !.target = IF @ = Undef THEN Ref(Fresh(S.m)) ELSE @]
                 \* config[i - 1] is still the object the caller passed
                 link(q) == IF i > 1 /\ q[i - 1].endpoint = Undef
                            THEN [q EXCEPT ![i - 1].endpoint = copy.target]
                            ELSE q
             IN Loop([m |-> Alloc(S.m, "obj"),
                      opts |-> link([S.opts EXCEPT ![i] = copy]),
                      now |-> link(S.now)], i - 1)
      L == Loop([m |-> M, opts |-> cs, now |-> cs], N)
  IN IF input.arr
     THEN IF Truthy(L.opts[N].endpoint) THEN L
          ELSE [m |-> Alloc(L.m, "obj"),
                opts |-> [L.opts EXCEPT ![N].endpoint = Ref(Fresh(L.m))],
                now |-> L.now]
     ELSE LET M1 == Alloc(Alloc(M, "obj"), "obj")
          IN [m |-> M1,
              opts |-> <<[cs[1] EXCEPT
                            !.target = IF @ = Undef THEN Ref(Fresh(M)) ELSE @,
                            !.endpoint = IF @ = Undef THEN Ref(Fresh(M) + 1) ELSE @]>>,
              now |-> cs]

\* static #prepareConfig(config): [m |-> machine, opts |-> the returned chain,
\* now |-> the caller's configuration objects after the call]; input is
\* [arr |-> the caller passed an array, cs |-> the configuration objects]
PrepareConfig008(M, input) ==
  LET cs == input.cs
      N == Len(cs)
      RECURSIVE Loop(_, _)
      \* S.opts are the elements of the array, S.now the caller's objects
      Loop(S, i) ==
        IF i = 0 THEN S
        ELSE LET copy == [S.opts[i] EXCEPT
                            !.target = IF @ = Undef THEN Ref(Fresh(S.m)) ELSE @]
                 \* config[i - 1] is still the object the caller passed
                 link(q) == IF i > 1 THEN [q EXCEPT ![i - 1].endpoint = copy.target]
                            ELSE q
             IN Loop([m |-> Alloc(S.m, "obj"),
                      opts |-> link([S.opts EXCEPT ![i] = copy]),
                      now |-> link(S.now)], i - 1)
      L == Loop([m |-> M, opts |-> cs, now |-> cs], N)
  IN IF input.arr
     THEN IF Truthy(L.opts[N].endpoint) THEN L
          ELSE [m |-> Alloc(L.m, "obj"),
                opts |-> [L.opts EXCEPT ![N].endpoint = Ref(Fresh(L.m))],
                now |-> L.now]
     ELSE LET M1 == Alloc(Alloc(M, "obj"), "obj")
          IN [m |-> M1,
              opts |-> <<[cs[1] EXCEPT
                            !.target = IF @ = Undef THEN Ref(Fresh(M)) ELSE @,
                            !.endpoint = IF @ = Undef THEN Ref(Fresh(M) + 1) ELSE @]>>,
              now |-> cs]

\* ReactiveStorage.delete(key), written for a bug that deletes from the first
\* target only
Delete008_FirstTarget(M, data, k) ==
  IF PropIdx(M.heap[data.target.v].props, k) # 0
  THEN [m |-> [M EXCEPT !.heap[data.endpoint.v].props = RemoveProp(@, k),
                        !.heap[data.target.v].props = RemoveProp(@, k)],
        ret |-> TRUE]
  ELSE [m |-> M, ret |-> FALSE]

\* ReactiveStorage.delete(key) of the variant: the entry of the endpoint and
\* the property of every target; data is [endpoint, target, targets]
Delete008(M, data, k) ==
  LET RECURSIVE Targets(_, _)
      Targets(S, i) ==
        IF i > Len(data.targets) THEN S
        ELSE Targets([S EXCEPT !.heap[data.targets[i].v].props = RemoveProp(@, k)], i + 1)
  IN IF PropIdx(M.heap[data.target.v].props, k) # 0
     THEN [m |-> Targets([M EXCEPT !.heap[data.endpoint.v].props = RemoveProp(@, k)], 1),
           ret |-> TRUE]
     ELSE [m |-> M, ret |-> FALSE]

\* ---------------------------------------------------------------------------
\* Values the caller passes in: literals, instantiated on the heap when used
\* ---------------------------------------------------------------------------
Prim(x) == [k |-> "prim", p |-> x, kind |-> "", f |-> <<>>]
Lit(kind, fields) == [k |-> "lit", p |-> Undef, kind |-> kind, f |-> fields]
Field(key, tpl) == [key |-> key, tpl |-> tpl]
NoValue == [k |-> "none", p |-> Undef, kind |-> "", f |-> <<>>]

ObjA == Lit("obj", <<Field("a", Prim(Num(1)))>>)
ObjAB == Lit("obj", <<Field("a", Lit("obj", <<Field("b", Prim(Num(3)))>>))>>)
ObjB == Lit("obj", <<Field("a", Prim(Num(2))), Field("b", Prim(Num(5)))>>)
ArrA == Lit("arr", <<Field("0", Lit("obj", <<Field("a", Prim(Num(1)))>>))>>)
InstA == Lit("inst", <<Field("a", Prim(Num(1)))>>)

RECURSIVE Instantiate(_, _)
RECURSIVE InstantiateFields(_, _, _, _)

\* evaluate a literal: [m |-> machine, v |-> value]
Instantiate(M, tpl) ==
  IF tpl.k # "lit" THEN [m |-> M, v |-> tpl.p]
  ELSE LET a == Fresh(M)
       IN [m |-> InstantiateFields(Alloc(M, tpl.kind), a, tpl.f, 1), v |-> Ref(a)]

InstantiateFields(M, a, f, i) ==
  IF i > Len(f) THEN M
  ELSE LET r == Instantiate(M, f[i].tpl)
       IN InstantiateFields(
            [r.m EXCEPT !.heap[a].props = Append(@, DataProp(f[i].key, r.v))],
            a, f, i + 1)

\* ---------------------------------------------------------------------------
\* State
\* ---------------------------------------------------------------------------
VARIABLES
  heap,     \* the objects
  binds,    \* the closures of the #register calls
  config,   \* this.config of the ReactiveStorage instance (its first layer)
  chain,    \* this.config as a definition chain
  caller,   \* the caller's configuration objects: as set, and as they are now
  log,      \* setter and postSetter hook calls of the last operation
  gets,     \* getter hook calls of the last operation
  err,      \* the last operation threw
  nops,     \* number of operations so far
  last,     \* the last operation
  written,  \* per registered key: the value last assigned through the front
  held,     \* reference to front[k] the caller took before the last replacement
  poked,    \* the caller has assigned into the backing store directly
  stores    \* the caller's other storages: earlier instances, static registrations

vars ==
  <<heap, binds, config, chain, caller, log, gets, err, nops, last, written, held, poked,
    stores>>

TopKeys == {"foo", "bar"}
KeyLists == {<<"foo">>, <<"foo", "bar">>}

Cur == [heap |-> heap, binds |-> binds, log |-> <<>>, gets |-> <<>>, err |-> FALSE, stack |-> 0]

\* storage.target / storage.endpoint
Target == config.target
Endpoint == config.endpoint

RECURSIVE ReadPath(_, _, _)
\* o.p1.p2...: Undef when an intermediate value is not an object
ReadPath(M, o, path) ==
  IF path = <<>> THEN o
  ELSE IF ~IsRef(o) THEN Undef
  ELSE ReadPath(M, ReadProp(M, o, Head(path)), Tail(path))

\* front.p1.p2... and backing.p1.p2...
FrontRead(M, path) == ReadPath(M, Target, path)
BackRead(M, path) ==
  IF path = <<>> THEN Endpoint
  ELSE ReadPath(M, MakeGetter(M, Endpoint, Head(path)), Tail(path))

HasOwn(M, o, k) == IsRef(o) /\ PropIdx(M.heap[o.v].props, k) # 0
IsAccessor(M, o, k) ==
  /\ HasOwn(M, o, k)
  /\ M.heap[o.v].props[PropIdx(M.heap[o.v].props, k)].acc

\* ReactiveStorage.has(key)
Has(M, k) == HasOwn(M, Target, k)

\* ReactiveStorage.delete(key), written for a bug that forgets the endpoint
Delete_KeepEndpoint(M, k) ==
  IF Has(M, k)
  THEN [m |-> [M EXCEPT !.heap[Target.v].props = RemoveProp(@, k)], ret |-> TRUE]
  ELSE [m |-> M, ret |-> FALSE]

\* ReactiveStorage.delete(key): [m |-> machine after the call, ret |-> returned value]
\* (the entries of a Map endpoint and the properties of a plain one are both in props)
Delete(M, k) ==
  IF Has(M, k) /\ ~M.heap[Target.v].props[PropIdx(M.heap[Target.v].props, k)].conf
  THEN [m |-> Throw(M), ret |-> FALSE]
  ELSE IF Has(M, k)
  THEN LET M1 == [M EXCEPT !.heap[Endpoint.v].props = RemoveProp(@, k)]
           M2 == [M1 EXCEPT !.heap[Target.v].props = RemoveProp(@, k)]
       IN [m |-> M2, ret |-> TRUE]
  ELSE [m |-> M, ret |-> FALSE]

\* #prepareConfig(config), written for a bug that takes the target as the
\* default endpoint
PrepareConfig_EndpointIsTarget(M, c) ==
  LET M1 == Alloc(Alloc(M, "obj"), "obj")
      t == IF c.target = Undef THEN Ref(Fresh(M)) ELSE c.target
  IN [m |-> M1,
      c |-> [c EXCEPT !.target = t,
                      !.endpoint = IF c.endpoint = Undef THEN t ELSE @]]

\* #prepareConfig(config), written for a bug that keeps one default target and
\* one default endpoint for all calls
PrepareConfig_SharedDefault(M, c) ==
  LET M1 == IF Len(M.heap) < 2 THEN Alloc(Alloc(M, "obj"), "obj") ELSE M
  IN [m |-> M1,
      c |-> [c EXCEPT !.target = IF c.target = Undef THEN Ref(1) ELSE @,
                      !.endpoint = IF c.endpoint = Undef THEN Ref(2) ELSE @]]

\* #prepareConfig(config): Object.assign({ target: {}, endpoint: {} }, config)
PrepareConfig(M, c) ==
  LET M1 == Alloc(Alloc(M, "obj"), "obj")
  IN [m |-> M1,
      c |-> [c EXCEPT !.target = IF c.target = Undef THEN Ref(Fresh(M)) ELSE @,
                      !.endpoint = IF c.endpoint = Undef THEN Ref(Fresh(M) + 1) ELSE @]]

RECURSIVE RegisterKeys(_, _, _, _, _, _)
\* the loop of #registerGeneric over the keys
RegisterKeys(M, keys, i, initialValue, opts, recursive) ==
  IF M.err \/ i > Len(keys) THEN M
  ELSE RegisterKeys(Register(M, keys[i], initialValue, opts, recursive, <<keys[i]>>),
                    keys, i + 1, initialValue, opts, recursive)

\* static #registerGeneric(key, initialValue, config, recursive)
RegisterGeneric(M, keys, initialValue, c, recursive) ==
  LET P == PrepareConfig(M, c)
  IN RegisterKeys(P.m, keys, 1, initialValue, P.c, recursive)

\* ---------------------------------------------------------------------------
\* Configurations passed to the constructor
\* ---------------------------------------------------------------------------
WithSetter(c, h) == [c EXCEPT !.setter = h]
WithPost(c, h) == [c EXCEPT !.postSetter = h]
WithDepth(c, d) == [c EXCEPT !.depth = d]
\* endpoint: new Map(), allocated by the caller at address 1
WithMap(c) == [c EXCEPT !.endpoint = Ref(1)]

NoOp == [op |-> "none", keys |-> <<>>, val |-> NoValue, rec |-> FALSE, ret |-> FALSE]
NotHeld == [v |-> Undef, k |-> ""]

InitWith(cs) ==
  /\ \E c \in cs :
       LET M0 == [heap |-> IF c.endpoint = Undef THEN <<>> ELSE <<NewObject("map")>>,
                  binds |-> <<>>, log |-> <<>>, gets |-> <<>>, err |-> FALSE, stack |-> 0]
           P == PrepareConfig(M0, c)
       IN /\ heap = P.m.heap
          /\ config = P.c
          /\ chain = <<P.c>>
          /\ caller = [set |-> <<c>>, now |-> <<c>>]
  /\ binds = <<>>
  /\ log = <<>>
  /\ gets = <<>>
  /\ err = FALSE
  /\ nops = 0
  /\ last = NoOp
  /\ written = [k \in TopKeys |-> NoValue]
  /\ held = NotHeld
  /\ poked = FALSE
  /\ stores = <<>>

\* the machine after the operation becomes the state
Commit(M) ==
  /\ heap' = M.heap
  /\ binds' = M.binds
  /\ log' = M.log
  /\ gets' = M.gets
  /\ err' = M.err
  /\ nops' = nops + 1
  /\ UNCHANGED <<config, chain, caller, stores>>

InList(k, keys) == \E i \in 1..Len(keys) : keys[i] = k

\* storage.register(keys, v) and ReactiveStorage.registerRecursive(keys, v, storage.config)
DoRegister(keys, tpl, recursive) ==
  /\ nops < MaxOps
  /\ LET I == Instantiate(Cur, tpl)
         M == RegisterGeneric(I.m, keys, I.v, config, recursive)
     IN Commit(M)
  /\ last' = [op |-> "register", keys |-> keys, val |-> tpl, rec |-> recursive, ret |-> FALSE]
  /\ written' = [k \in TopKeys |->
                   IF InList(k, keys) /\ tpl # Prim(Undef) THEN tpl ELSE written[k]]
  /\ UNCHANGED <<held, poked>>

\* front[k] = v, written for a bug where the assignment replaces the accessor
\* by a data property
DoWrite_DataProperty(k, tpl) ==
  /\ nops < MaxOps
  /\ IsAccessor(Cur, Target, k)
  /\ LET I == Instantiate(Cur, tpl)
         i == PropIdx(heap[Target.v].props, k)
     IN Commit([I.m EXCEPT !.heap[Target.v].props[i] = DataProp(k, I.v)])
  /\ last' = [op |-> "write", keys |-> <<k>>, val |-> tpl, rec |-> FALSE, ret |-> FALSE]
  /\ written' = [written EXCEPT ![k] = tpl]
  /\ UNCHANGED <<held, poked>>

\* front[k] = v for a registered key k
DoWrite(k, tpl) ==
  /\ nops < MaxOps
  /\ IsAccessor(Cur, Target, k)
  /\ LET I == Instantiate(Cur, tpl)
         M == WriteProp(I.m, Target, k, I.v)
     IN Commit(M)
  /\ last' = [op |-> "write", keys |-> <<k>>, val |-> tpl, rec |-> FALSE, ret |-> FALSE]
  /\ written' = [written EXCEPT ![k] = tpl]
  /\ held' = IF IsRef(FrontRead(Cur, <<k>>)) THEN [v |-> FrontRead(Cur, <<k>>), k |-> k]
             ELSE held
  /\ UNCHANGED poked

\* front[k] = v for a value v that lies on a cycle: "self" is v with v.a = v,
\* "pair" is v with v.a.b = v, "front" is the front object itself
DoWriteGraph(k, shape) ==
  /\ nops < MaxOps
  /\ IsAccessor(Cur, Target, k)
  /\ LET v == Fresh(Cur)
         M == CASE shape = "self" ->
                     [Alloc(Cur, "obj") EXCEPT !.heap[v].props = <<DataProp("a", Ref(v))>>]
                [] shape = "pair" ->
                     [Alloc(Alloc(Cur, "obj"), "obj") EXCEPT
                        !.heap[v].props = <<DataProp("a", Ref(v + 1))>>,
                        !.heap[v + 1].props = <<DataProp("b", Ref(v))>>]
                [] OTHER -> Cur
     IN Commit(WriteProp(M, Target, k, IF shape = "front" THEN Target ELSE Ref(v)))
  /\ last' = [op |-> "graph", keys |-> <<k>>, rec |-> FALSE, ret |-> FALSE,
              val |-> [k |-> shape, p |-> Undef, kind |-> "", f |-> <<>>]]
  /\ written' = [written EXCEPT ![k] = NoValue]
  /\ UNCHANGED <<held, poked>>

Front(path) == SubSeq(path, 1, Len(path) - 1)
Final(path) == path[Len(path)]

\* front.k.a = v, front.k.a.b = v for an existing nested key
DoWriteNested(path, tpl) ==
  /\ nops < MaxOps
  /\ HasOwn(Cur, FrontRead(Cur, Front(path)), Final(path))
  /\ LET I == Instantiate(Cur, tpl)
         M == WriteProp(I.m, FrontRead(Cur, Front(path)), Final(path), I.v)
     IN Commit(M)
  /\ last' = [op |-> "nested", keys |-> path, val |-> tpl, rec |-> FALSE, ret |-> FALSE]
  /\ UNCHANGED <<written, held, poked>>

\* backing.k.a = v, backing.k.a.b = v: the caller bypasses the front object
DoPoke(path, x) ==
  /\ nops < MaxOps
  /\ HasOwn(Cur, BackRead(Cur, Front(path)), Final(path))
  /\ Commit(WriteProp(Cur, BackRead(Cur, Front(path)), Final(path), x))
  /\ last' = [op |-> "poke", keys |-> path, val |-> Prim(x), rec |-> FALSE, ret |-> FALSE]
  /\ poked' = TRUE
  /\ UNCHANGED <<written, held>>

\* storage.delete(k)
DoDelete(k) ==
  /\ nops < MaxOps
  /\ LET D == Delete(Cur, k)
     IN /\ Commit(D.m)
        /\ last' = [op |-> "delete", keys |-> <<k>>, val |-> NoValue, rec |-> FALSE,
                    ret |-> D.ret]
  /\ written' = [written EXCEPT ![k] = NoValue]
  /\ UNCHANGED <<held, poked>>

\* values used by the caller
NestedKeys == {"a", "b", "0"}
NestedPaths ==
  {<<k, n>> : k \in TopKeys, n \in NestedKeys}
  \cup {<<k, n, m>> : k \in TopKeys, n \in NestedKeys, m \in NestedKeys}
NestedValues == {Prim(Num(7)), ObjA}
PokeValues == {Num(9)}

NextWith(pool) ==
  \/ \E keys \in KeyLists, tpl \in pool, r \in BOOLEAN : DoRegister(keys, tpl, r)
  \/ \E k \in TopKeys, tpl \in pool : DoWrite(k, tpl)
  \/ \E path \in NestedPaths, tpl \in NestedValues : DoWriteNested(path, tpl)
  \/ \E path \in NestedPaths, x \in PokeValues : DoPoke(path, x)
  \/ \E k \in TopKeys : DoDelete(k)

\* ---------------------------------------------------------------------------
\* Specifications
\* ---------------------------------------------------------------------------
\* shallow use: every primitive, with and without observing hooks
ShallowConfigs ==
  {EmptyConfig, WithMap(EmptyConfig),
   WithDepth(EmptyConfig, DepthInf),
   WithPost(WithSetter(EmptyConfig, "pass"), "pass"),
   WithPost(WithSetter(EmptyConfig, "veto"), "pass")}
ShallowValues ==
  {Prim(Undef), Prim(Num(0)), Prim(Num(3)), Prim(Bool(0)), Prim(Str(0)), Prim(Str(1)), ObjA}

Init == InitWith(ShallowConfigs)
Next == NextWith(ShallowValues)
Spec == Init /\ [][Next]_vars

\* deep use: nested literals under the depth configurations
DeepConfigs ==
  {WithDepth(EmptyConfig, DepthInf),
   WithDepth(EmptyConfig, DepthNum(1)),
   WithDepth(EmptyConfig, DepthNum(2)),
   WithDepth(EmptyConfig, DepthCfg(EmptyConfig)),
   WithSetter(WithDepth(EmptyConfig, DepthNum(1)), "pass"),
   WithSetter(WithDepth(EmptyConfig, DepthInf), "pass")}
DeepValues == {Prim(Undef), Prim(Num(3)), ObjA, ObjAB, ObjB, ArrA, InstA}

InitDeep == InitWith(DeepConfigs)
NextDeep == NextWith(DeepValues)
SpecDeep == InitDeep /\ [][NextDeep]_vars

\* intercepting setter hooks
HookConfigs ==
  {WithPost(WithSetter(c, h), "pass") :
     c \in {EmptyConfig, WithMap(EmptyConfig), WithDepth(EmptyConfig, DepthInf),
            WithDepth(EmptyConfig, DepthNum(1))},
     h \in {"veto", "subst"}}
  \cup {WithSetter(WithDepth(EmptyConfig, DepthInf), "pass")}
HookValues == {Prim(Undef), Prim(Num(0)), Prim(Num(3)), Prim(Str(1)), ObjA}

InitHooks == InitWith(HookConfigs)
NextHooks == NextWith(HookValues)
SpecHooks == InitHooks /\ [][NextHooks]_vars

\* layered use: hooks, filters and enumerability per nesting level
ObjABC ==
  Lit("obj", <<Field("a", Lit("obj", <<Field("b", Lit("obj", <<Field("c", Prim(Num(4)))>>))>>))>>)
ObjTwo == Lit("obj", <<Field("a", Lit("obj", <<Field("b", Prim(Num(3)))>>)), Field("b", Prim(Num(5)))>>)
ObjInst == Lit("obj", <<Field("a", InstA)>>)

WithGetter(c, h) == [c EXCEPT !.getter = h]
WithFilter(c, f) == [c EXCEPT !.depthFilter = f]
WithEnumerable(c, e) == [c EXCEPT !.enumerable = e]
\* setter, postSetter and getter hooks that observe
Hooked == WithGetter(WithPost(WithSetter(EmptyConfig, "pass"), "pass"), "pass")

LayerConfigs ==
  {Hooked,
   WithDepth(Hooked, DepthNum(0)),
   WithDepth(Hooked, DepthNum(1)),
   WithDepth(Hooked, DepthNum(2)),
   WithDepth(Hooked, DepthInf),
   WithDepth(Hooked, DepthCfg(WithSetter(EmptyConfig, "pass2"))),
   WithDepth(Hooked, DepthCfg(WithSetter(EmptyConfig, "false"))),
   WithDepth(WithFilter(Hooked, "any"),
             DepthCfg(WithDepth(WithFilter(EmptyConfig, "literal"),
                                DepthCfg(WithPost(EmptyConfig, "pass2"))))),
   WithDepth(WithSetter(Hooked, "veto"), DepthInf),
   WithEnumerable(WithDepth(EmptyConfig, DepthInf), "false"),
   WithEnumerable(WithDepth(EmptyConfig, DepthCfg(WithDepth(EmptyConfig, DepthNum(1)))), "false")}
LayerValues == {Prim(Undef), Prim(Num(3)), ObjA, ObjTwo, ObjABC, ArrA, InstA, ObjInst}
LayerPaths ==
  {<<"foo", "a">>, <<"foo", "b">>, <<"foo", "0">>, <<"foo", "a", "b">>,
   <<"foo", "a", "a">>, <<"foo", "0", "a">>, <<"foo", "a", "b", "c">>}

InitLayers == InitWith(LayerConfigs)
NextLayers ==
  \/ \E tpl \in LayerValues, r \in BOOLEAN : DoRegister(<<"foo">>, tpl, r)
  \/ \E tpl \in LayerValues : DoWrite("foo", tpl)
  \/ \E path \in LayerPaths, tpl \in NestedValues : DoWriteNested(path, tpl)
SpecLayers == InitLayers /\ [][NextLayers]_vars

\* definition chains (the variant of src/unnamed/part_008): the caller holds
\* three containers (two objects at 1 and 2, a Map at 3) that a configuration
\* may name as target or endpoint
InitChain ==
  /\ \E input \in
       LET L(s, g) == WithGetter(WithSetter(EmptyConfig, s), g)
           T(c, r) == [c EXCEPT !.target = r]
           E(c, r) == [c EXCEPT !.endpoint = r]
           Arr(q) == [arr |-> TRUE, cs |-> q]
       IN {Arr(<<L("pass", "round50"), L("pass2", "round5")>>),
           Arr(<<L("veto", "unset"), WithPost(L("pass", "unset"), "pass")>>),
           Arr(<<L("pass", "pass"), L("veto", "pass"), L("pass2", "pass")>>),
           Arr(<<L("pass", "round50"), L("pass", "pass"), L("pass", "round5")>>),
           Arr(<<EmptyConfig, EmptyConfig, EmptyConfig>>),
           Arr(<<E(EmptyConfig, Ref(2)), T(L("pass", "unset"), Ref(1))>>),
           Arr(<<E(T(EmptyConfig, Ref(1)), Ref(2)), E(L("pass", "unset"), Ref(3))>>),
           Arr(<<E(WithPost(L("pass", "pass"), "pass"), Ref(2))>>),
           [arr |-> FALSE, cs |-> <<L("pass", "zero")>>],
           [arr |-> FALSE, cs |-> <<E(T(EmptyConfig, Ref(1)), Ref(2))>>]} :
       LET M0 == [heap |-> <<NewObject("obj"), NewObject("obj"), NewObject("map")>>,
                  binds |-> <<>>, log |-> <<>>, gets |-> <<>>, err |-> FALSE, stack |-> 0]
           P == PrepareConfig008(M0, input)
       IN /\ heap = P.m.heap
          /\ chain = P.opts
          /\ config = P.opts[1]
          /\ caller = [set |-> input.cs, now |-> P.now]
  /\ binds = <<>>
  /\ log = <<>>
  /\ gets = <<>>
  /\ err = FALSE
  /\ nops = 0
  /\ last = NoOp
  /\ written = [k \in TopKeys |-> NoValue]
  /\ held = NotHeld
  /\ poked = FALSE
  /\ stores = <<>>

\* static #getDataFromConfigs(config)
GetDataFromConfigs(opts) ==
  [endpoint |-> opts[Len(opts)].endpoint,
   target |-> opts[1].target,
   targets |-> [i \in 1..Len(opts) |-> opts[i].target]]

\* storage.register(keys, v) on a chain; registerRecursive when recursive
DoRegisterChain(keys, tpl, recursive) ==
  /\ nops < MaxOps
  /\ LET I == Instantiate(Cur, tpl)
     IN Commit(RegisterGeneric008(I.m, keys, I.v, chain, recursive))
  /\ last' = [op |-> "register", keys |-> keys, val |-> tpl, rec |-> recursive,
              ret |-> FALSE, layer |-> 0]
  /\ written' = [k \in TopKeys |->
                   IF InList(k, keys) /\ tpl # Prim(Undef) THEN tpl ELSE written[k]]
  /\ UNCHANGED <<held, poked>>

\* storage.targets[i][k] = v for a registered key k (layers are counted from 1)
DoWriteChain(i, k, tpl) ==
  /\ nops < MaxOps
  /\ i <= Len(chain)
  /\ IsAccessor(Cur, chain[i].target, k)
  /\ LET I == Instantiate(Cur, tpl)
     IN Commit(WriteProp(I.m, chain[i].target, k, I.v))
  /\ last' = [op |-> "write", keys |-> <<k>>, val |-> tpl, rec |-> FALSE,
              ret |-> FALSE, layer |-> i]
  /\ written' = [written EXCEPT ![k] = tpl]
  /\ UNCHANGED <<held, poked>>

\* storage.delete(k) on a chain
DoDeleteChain(k) ==
  /\ nops < MaxOps
  /\ LET D == Delete008(Cur, GetDataFromConfigs(chain), k)
     IN /\ Commit(D.m)
        /\ last' = [op |-> "delete", keys |-> <<k>>, val |-> NoValue, rec |-> FALSE,
                    ret |-> D.ret, layer |-> 0]
  /\ written' = [written EXCEPT ![k] = NoValue]
  /\ UNCHANGED <<held, poked>>

NextChain ==
  \/ \E keys \in KeyLists, r \in BOOLEAN,
        tpl \in {Prim(Undef), Prim(Num(3)), Prim(Num(62)), Prim(Str(1)), InstA} :
       DoRegisterChain(keys, tpl, r)
  \/ \E i \in 1..3, k \in TopKeys, tpl \in {Prim(Num(3)), Prim(Num(62)), InstA} :
       DoWriteChain(i, k, tpl)
  \/ \E k \in TopKeys : DoDeleteChain(k)
SpecChain == InitChain /\ [][NextChain]_vars

\* what is used as property key for a key argument x: ToPropertyKey(x)
ToPropertyKey(x) ==
  CASE x = Bool(1) -> "true"
    [] x = Null -> "null"
    [] x.t = "ref" -> "[object Object]"
    [] OTHER -> "undefined"

\* storage.register(x, v) with a key argument x that is no string, number or
\* symbol (a boolean, null, an object literal)
DoRegisterKey(x, tpl) ==
  /\ nops < MaxOps
  /\ LET I == Instantiate(Cur, tpl)
     IN Commit(RegisterGeneric(I.m, <<ToPropertyKey(x)>>, I.v, config, FALSE))
  /\ last' = [op |-> "badkey", keys |-> <<ToPropertyKey(x)>>, val |-> tpl,
              rec |-> FALSE, ret |-> FALSE]
  /\ UNCHANGED <<written, held, poked>>

\* failing calls: hooks that throw, at the registered key or one level below,
\* a target that is no object, and keys that are no property keys
InitErrors ==
  InitWith({EmptyConfig,
            WithSetter(EmptyConfig, "throw"),
            WithPost(EmptyConfig, "throw"),
            WithDepth(EmptyConfig, DepthCfg(WithSetter(EmptyConfig, "throw"))),
            WithDepth(EmptyConfig, DepthCfg(WithPost(EmptyConfig, "throw"))),
            [EmptyConfig EXCEPT !.target = Num(5)]})
NextErrors ==
  \/ NextWith({Prim(Undef), Prim(Num(3)), ObjA})
  \/ \E x \in {Bool(1), Null, Ref(1)}, tpl \in {Prim(Undef), Prim(Num(3))} :
       DoRegisterKey(x, tpl)
SpecErrors == InitErrors /\ [][NextErrors]_vars

\* getter hooks: what a read returns and which hook calls it makes
InitGetters ==
  InitWith({EmptyConfig, WithDepth(EmptyConfig, DepthNum(1))}
           \cup {WithGetter(EmptyConfig, h) :
                   h \in {"pass", "null", "zero", "no", "empty", "round5"}}
           \cup {WithGetter(WithMap(EmptyConfig), "zero"),
                 WithGetter(WithDepth(EmptyConfig, DepthInf), "pass"),
                 WithGetter(WithDepth(EmptyConfig, DepthNum(1)), "pass")})
NextGetters ==
  \/ NextWith({Prim(Undef), Prim(Num(0)), Prim(Num(62)), Prim(Str(1)), ObjA, ObjAB})
  \/ \E k \in TopKeys, x \in PokeValues : DoPoke(<<k>>, x)
SpecGetters == InitGetters /\ [][NextGetters]_vars

\* storage = new ReactiveStorage(c): the caller keeps the earlier storage
DoNew(c) ==
  /\ nops < MaxOps
  /\ Len(stores) < MaxStores
  /\ LET P == PrepareConfig(Cur, c)
     IN /\ heap' = P.m.heap
        /\ config' = P.c
        /\ chain' = <<P.c>>
  /\ stores' = Append(stores, config)
  /\ log' = <<>>
  /\ gets' = <<>>
  /\ err' = FALSE
  /\ nops' = nops + 1
  /\ last' = [op |-> "new", keys |-> <<>>, val |-> NoValue, rec |-> FALSE, ret |-> FALSE]
  /\ written' = [k \in TopKeys |-> NoValue]
  /\ held' = NotHeld
  /\ UNCHANGED <<binds, caller, poked>>

\* data = ReactiveStorage.register(keys, v): the static call without a
\* configuration; the caller keeps the returned target and endpoint
DoRegisterStatic(keys, tpl) ==
  /\ nops < MaxOps
  /\ Len(stores) < MaxStores
  /\ LET I == Instantiate(Cur, tpl)
         M == RegisterGeneric(I.m, keys, I.v, EmptyConfig, FALSE)
     IN /\ heap' = M.heap
        /\ binds' = M.binds
        /\ log' = M.log
        /\ gets' = M.gets
        /\ err' = M.err
        /\ stores' = Append(stores, PrepareConfig(I.m, EmptyConfig).c)
  /\ nops' = nops + 1
  /\ last' = [op |-> "static", keys |-> keys, val |-> tpl, rec |-> FALSE, ret |-> FALSE]
  /\ UNCHANGED <<config, chain, caller, written, held, poked>>

\* several storages with default containers side by side
SpecStores ==
  /\ InitWith({EmptyConfig, WithDepth(EmptyConfig, DepthInf)})
  /\ [][\/ NextWith({Prim(Undef), Prim(Num(3)), ObjA})
        \/ \E c \in {EmptyConfig, WithDepth(EmptyConfig, DepthInf)} : DoNew(c)
        \/ \E keys \in KeyLists, tpl \in {Prim(Undef), Prim(Num(3)), ObjA} :
             DoRegisterStatic(keys, tpl)]_vars

\* either build runs the storage: the class of ReactiveStorage.ts on a single
\* configuration, or the variant with definition chains, with nested values
SpecFrontBack ==
  /\ InitLayers \/ InitChain
  /\ [][\/ /\ \A i \in 1..Len(binds) : ~binds[i].once
           /\ Len(chain) = 1
           /\ NextLayers
        \/ /\ \A i \in 1..Len(binds) : binds[i].once
           /\ \/ \E r \in BOOLEAN, tpl \in {Prim(Num(3)), ObjA, ObjAB} :
                   DoRegisterChain(<<"foo">>, tpl, r)
              \/ \E i \in 1..3, tpl \in {Prim(Num(3)), ObjA} :
                   DoWriteChain(i, "foo", tpl)
              \/ \E k \in TopKeys : DoDeleteChain(k)]_vars

\* keys that are always registered together: register(['foo', 'bar'], v)
SpecTogether ==
  /\ InitWith(DeepConfigs \cup {EmptyConfig, WithMap(EmptyConfig)})
  /\ [][\/ \E tpl \in {Prim(Undef), Prim(Num(3)), ObjA, ObjAB, ObjB}, r \in BOOLEAN :
             DoRegister(<<"foo", "bar">>, tpl, r)
        \/ \E k \in TopKeys, tpl \in {Prim(Num(3)), ObjA, ObjB} : DoWrite(k, tpl)
        \/ \E path \in NestedPaths, tpl \in NestedValues : DoWriteNested(path, tpl)]_vars

\* storage.registerFrom(object), written for a bug that leaves out the symbols
DoRegisterFrom_StringKeysOnly(props) ==
  /\ nops < MaxOps
  /\ LET o == Fresh(Cur)
         own == SelectSeq(props, LAMBDA p : p.enum /\ p.key \notin {"@@id"})
         RECURSIVE From(_, _)
         From(M, i) ==
           IF M.err \/ i > Len(own) THEN M
           ELSE From(RegisterGeneric008(M, <<own[i].key>>, ReadProp(M, Ref(o), own[i].key),
                                        chain, FALSE), i + 1)
     IN Commit(From([Alloc(Cur, "obj") EXCEPT !.heap[o].props = props], 1))
  /\ last' = [op |-> "from", keys |-> <<>>, val |-> NoValue, rec |-> FALSE,
              ret |-> FALSE, layer |-> 0]
  /\ UNCHANGED <<written, held, poked>>

\* storage.registerFrom(object): object is an object of the caller with the
\* own properties props (the key "@@id" stands for a symbol); Object.keys gives
\* its enumerable string keys, Object.getOwnPropertySymbols all its symbols
DoRegisterFrom(props) ==
  /\ nops < MaxOps
  /\ LET o == Fresh(Cur)
         own == SelectSeq(props, LAMBDA p : p.enum /\ p.key \notin {"@@id"})
                \o SelectSeq(props, LAMBDA p : p.key \in {"@@id"})
         RECURSIVE From(_, _)
         From(M, i) ==
           IF M.err \/ i > Len(own) THEN M
           ELSE From(RegisterGeneric008(M, <<own[i].key>>, ReadProp(M, Ref(o), own[i].key),
                                        chain, FALSE), i + 1)
     IN Commit(From([Alloc(Cur, "obj") EXCEPT !.heap[o].props = props], 1))
  /\ last' = [op |-> "from", keys |-> <<>>, val |-> NoValue, rec |-> FALSE,
              ret |-> FALSE, layer |-> 0]
  /\ UNCHANGED <<written, held, poked>>

\* bulk registration on definition chains
SpecFrom ==
  /\ InitChain
  /\ [][\/ \E props \in
             LET Hidden(p) == [p EXCEPT !.enum = FALSE]
             IN {<<DataProp("foo", Num(3)), DataProp("bar", Undef), DataProp("@@id", Num(62))>>,
                 <<DataProp("@@id", Str(1)), DataProp("bar", Num(62))>>,
                 <<DataProp("foo", Num(62)), Hidden(DataProp("bar", Num(3))),
                   Hidden(DataProp("@@id", Num(3)))>>,
                 <<Hidden(DataProp("foo", Num(3)))>>,
                 <<DataProp("bar", Null), DataProp("foo", Undef)>>,
                 <<>>} :
             DoRegisterFrom(props)
        \/ \E i \in 1..3, k \in {"foo", "bar", "@@id"}, tpl \in {Prim(Num(3)), Prim(Num(62))} :
             DoWriteChain(i, k, tpl)
        \/ \E k \in {"foo", "@@id"} : DoDeleteChain(k)]_vars

\* ---------------------------------------------------------------------------
\* Observations used by the properties
\* ---------------------------------------------------------------------------
NoHooks ==
  /\ config.setter = "unset"
  /\ config.getter = "unset"
  /\ config.postSetter = "unset"

\* the binding behind the accessor o[k]
BindingOf(M, o, k) == M.binds[M.heap[o.v].props[PropIdx(M.heap[o.v].props, k)].b]

\* number of setter hook calls logged for a path
SetterCalls(l, path) ==
  Cardinality({i \in 1..Len(l) : l[i].h = "set" /\ l[i].path = path})

\* own enumerable keys of an object, as a set
EnumKeys(M, x) == {ForInKeys(M, x)[i] : i \in 1..Len(ForInKeys(M, x))}
FieldKeys(tpl) == {tpl.f[i].key : i \in 1..Len(tpl.f)}

RECURSIVE DeepEqual(_, _, _)
\* the value x is deep-equal to the literal tpl, every key read through ReadProp
DeepEqual(M, x, tpl) ==
  IF tpl.k # "lit" THEN x = tpl.p
  ELSE /\ IsRef(x)
       /\ (M.heap[x.v].kind = "arr") <=> (tpl.kind = "arr")
       /\ EnumKeys(M, x) = FieldKeys(tpl)
       /\ \A i \in 1..Len(tpl.f) :
            DeepEqual(M, ReadProp(M, x, tpl.f[i].key), tpl.f[i].tpl)

\* the literal is accepted by the default depth filter
Eligible(tpl) == tpl.k = "lit" /\ tpl.kind \in {"obj", "arr"}

RECURSIVE Mirrors(_, _, _, _)
\* the accessor o[k] mirrors the literal tpl: inside the depth a fresh container
\* of the same shape, level by level; below the depth a deep-equal value
Mirrors(M, o, k, tpl) ==
  LET x == ReadProp(M, o, k)
  IN IF Eligible(tpl) /\ IsAccessor(M, o, k) /\ BindingOf(M, o, k).hasDepth
     THEN /\ IsRef(x)
          /\ x # MakeGetter(M, BindingOf(M, o, k).endpoint, k)
          /\ (M.heap[x.v].kind = "arr") <=> (tpl.kind = "arr")
          /\ EnumKeys(M, x) = FieldKeys(tpl)
          /\ \A i \in 1..Len(tpl.f) : Mirrors(M, x, tpl.f[i].key, tpl.f[i].tpl)
     ELSE DeepEqual(M, x, tpl)

RECURSIVE Snapshot(_, _)
\* what a caller can observe of a value: kinds, keys, accessor-ness and leaves
Snapshot(M, x) ==
  IF ~IsRef(x) THEN <<x>>
  ELSE LET ps == M.heap[x.v].props
       IN <<M.heap[x.v].kind,
            [i \in 1..Len(ps) |->
               <<ps[i].key, ps[i].acc, ps[i].enum, Snapshot(M, ReadProp(M, x, ps[i].key))>>]>>

\* the key's accessor was registered with an infinite depth
InfiniteDepth(M, k) ==
  /\ IsAccessor(M, Target, k)
  /\ BindingOf(M, Target, k).hasDepth
  /\ BindingOf(M, Target, k).depthOpts.depth.t = "inf"

\* the storage right after construction
InitialMachine ==
  [heap |-> [i \in 1..(Target.v + 1) |-> NewObject(heap[i].kind)],
   binds |-> <<>>, log |-> <<>>, gets |-> <<>>, err |-> FALSE, stack |-> 0]

\* a fresh storage of the same configuration after register(k, tpl)
FreshRegistration(k, tpl, recursive) ==
  LET I == Instantiate(InitialMachine, tpl)
  IN RegisterGeneric(I.m, <<k>>, I.v, config, recursive)

\* what the caller sees of key k: the front, the backing store, the hook calls
Observation(M, k) ==
  [front |-> Snapshot(M, FrontRead(M, <<k>>)),
   back |-> Snapshot(M, BackRead(M, <<k>>)),
   hooks |-> [i \in 1..Len(M.log) |->
                <<M.log[i].h, M.log[i].path, Snapshot(M, M.log[i].val)>>]]

\* the machine after front.k.n = 7, when front.k owns n
AfterNestedWrite(M, k, n) ==
  IF HasOwn(M, FrontRead(M, <<k>>), n)
  THEN WriteProp([M EXCEPT !.log = <<>>], FrontRead(M, <<k>>), n, Num(7))
  ELSE [M EXCEPT !.log = <<>>]

\* the observation now and after each nested write
Behaviour(M, k) ==
  [now |-> Observation(M, k),
   next |-> [n \in NestedKeys |-> Observation(AfterNestedWrite(M, k, n), k)]]

\* both are containers, or they are the same primitive
SameLeaf(x, y) == IF IsRef(x) /\ IsRef(y) THEN TRUE ELSE x = y

\* ---------------------------------------------------------------------------
\* Properties
\* ---------------------------------------------------------------------------

\* C1: without hooks, a registered key whose last assigned value (by register
\* or by a later write through the front) is a primitive reads that value on
\* the front object and holds that value in the backing store.
RoundTripShallow ==
  \A k \in TopKeys :
    (NoHooks /\ written[k].k = "prim")
      => /\ FrontRead(Cur, <<k>>) = written[k].p
         /\ BackRead(Cur, <<k>>) = written[k].p

\* a primitive written after two earlier operations is read back
RoundTripShallowWitness ==
  /\ NoHooks
  /\ nops = 3
  /\ last.op = "write"
  /\ last.val.k = "prim"
  /\ last.val.p # Undef
  /\ FrontRead(Cur, last.keys) = last.val.p
  /\ BackRead(Cur, last.keys) = last.val.p

\* C7: a registration without initial value (or with undefined) calls no hook
\* and leaves the backing store as it was; a registration with a defined
\* initial value, falsy ones included, calls the setter hook exactly once per
\* registered key, with initial = true.
InitialSuppression ==
  [][last'.op = "register" =>
       IF last'.val = Prim(Undef)
       THEN /\ log' = <<>>
            /\ heap'[Endpoint.v] = heap[Endpoint.v]
       ELSE config.setter # "unset" =>
              \A k \in TopKeys : InList(k, last'.keys) =>
                /\ SetterCalls(log', <<k>>) = 1
                /\ \A i \in 1..Len(log') :
                     (log'[i].h = "set" /\ log'[i].path = <<k>>) => log'[i].initial]_vars

\* a falsy initial value has gone through the setter hook of both keys
InitialSuppressionWitness ==
  /\ config.setter # "unset"
  /\ last.op = "register"
  /\ last.val \in {Prim(Num(0)), Prim(Bool(0)), Prim(Str(0))}
  /\ Len(last.keys) = 2
  /\ SetterCalls(log, <<"foo">>) = 1
  /\ SetterCalls(log, <<"bar">>) = 1

\* C10: delete(k) of a registered key returns true and removes k from the front
\* object and from the top-level backing store, leaving the other keys as they
\* were; delete(k) of a key the front object does not own returns false,
\* throws nothing and changes neither object.
DeleteContract ==
  [][last'.op = "delete" =>
       LET k == last'.keys[1]
       IN IF Has(Cur, k)
          THEN /\ last'.ret
               /\ ~Has(Cur', k)
               /\ ~HasOwn(Cur', Endpoint, k)
               /\ ~err'
               /\ \A j \in TopKeys \ {k} :
                    /\ Has(Cur', j) = Has(Cur, j)
                    /\ HasOwn(Cur', Endpoint, j) = HasOwn(Cur, Endpoint, j)
                    /\ FrontRead(Cur', <<j>>) = FrontRead(Cur, <<j>>)
                    /\ BackRead(Cur', <<j>>) = BackRead(Cur, <<j>>)
          ELSE /\ ~last'.ret
               /\ ~err'
               /\ heap' = heap
               /\ binds' = binds]_vars

\* a key with a value was deleted while the other key keeps its value
DeleteContractWitness ==
  /\ last.op = "delete"
  /\ last.ret
  /\ ~Has(Cur, last.keys[1])
  /\ \E j \in TopKeys \ {last.keys[1]} : Has(Cur, j) /\ BackRead(Cur, <<j>>) # Undef

\* C2: right after an eligible literal is registered at or assigned to a
\* depth-enabled key (hooks, if any, only observing), the front reads a fresh
\* container that is not the stored value, an array exactly when the literal
\* is one, with exactly the literal's keys, each key mirroring the literal's
\* value at that key in the same way down to the configured depth.
StructuralMirroring ==
  \A k \in TopKeys :
    (/\ last.op \in {"register", "write"}
     /\ InList(k, last.keys)
     /\ Eligible(last.val)
     /\ config.setter \in {"unset", "pass"})
      => Mirrors(Cur, Target, k, last.val)

\* a nested literal replaced an earlier sub-tree and is mirrored two levels deep
StructuralMirroringWitness ==
  /\ last.op = "write"
  /\ last.val = ObjAB
  /\ held.v # Undef
  /\ IsAccessor(Cur, Target, "foo")
  /\ BindingOf(Cur, Target, "foo").hasDepth
  /\ IsAccessor(Cur, FrontRead(Cur, <<"foo">>), "a")
  /\ BindingOf(Cur, FrontRead(Cur, <<"foo">>), "a").hasDepth
  /\ FrontRead(Cur, <<"foo", "a", "b">>) = Num(3)
  /\ FrontRead(Cur, <<"foo">>) # BackRead(Cur, <<"foo">>)
  /\ FrontRead(Cur, <<"foo", "a">>) # BackRead(Cur, <<"foo", "a">>)

\* C3: with infinite depth and no direct backing mutation, every nested path
\* reads the same through the front object and in the backing store.
DeepWriteThrough ==
  \A path \in NestedPaths :
    (/\ InfiniteDepth(Cur, Head(path))
     /\ Eligible(written[Head(path)])
     /\ NoHooks
     /\ ~poked)
      => SameLeaf(FrontRead(Cur, path), BackRead(Cur, path))

\* C4: with infinite depth, a value assigned directly into the backing store at
\* a nested path is what the front object reads at that path afterwards.
DirectMutationObserved ==
  (/\ last.op = "poke"
   /\ InfiniteDepth(Cur, Head(last.keys))
   /\ Eligible(written[Head(last.keys)])
   /\ NoHooks)
    => FrontRead(Cur, last.keys) = last.val.p

\* C5: once a write has replaced the sub-tree of a key, a write made through
\* the new sub-tree changes neither the old front object nor what it reads.
OldSubTreeStale ==
  [][(/\ last'.op = "nested"
      /\ IsRef(held.v)
      /\ Head(last'.keys) = held.k
      /\ held.v # FrontRead(Cur, <<held.k>>)
      /\ IsAccessor(Cur, FrontRead(Cur, Front(last'.keys)), Final(last'.keys)))
       => /\ heap'[held.v.v] = heap[held.v.v]
          /\ Snapshot(Cur', held.v) = Snapshot(Cur, held.v)]_vars

\* C6: after any history, assigning an eligible literal to a key registered
\* with a depth configuration is observed like a fresh registration of the key
\* with that literal: same front, same backing store, same hook calls, now and
\* for a following nested write.
ReactivityKeptAlive ==
  \A k \in TopKeys :
    (/\ last.op = "write"
     /\ last.keys = <<k>>
     /\ Eligible(last.val)
     /\ IsAccessor(Cur, Target, k)
     /\ BindingOf(Cur, Target, k).hasDepth)
      => Behaviour([Cur EXCEPT !.log = log], k)
           = Behaviour(FreshRegistration(k, last.val, BindingOf(Cur, Target, k).recursive), k)

\* C8: with a setter hook that calls set(s) and returns true, every assigned
\* key holds s in the backing store and reads s on the front object, whatever
\* value was assigned.
VetoSubstitution ==
  \A k \in TopKeys :
    (config.setter = "subst" /\ written[k] # NoValue)
      => /\ BackRead(Cur, <<k>>) = Sub
         /\ FrontRead(Cur, <<k>>) = Sub

\* C9: with a setter hook that returns true without calling set, a write leaves
\* the backing slot and the front read as they were and throws nothing.
PlainVetoDiscards ==
  [][(config.setter = "veto" /\ last'.op = "write")
       => /\ BackRead(Cur', last'.keys) = BackRead(Cur, last'.keys)
          /\ FrontRead(Cur', last'.keys) = FrontRead(Cur, last'.keys)
          /\ ~err']_vars


\* the hook calls among the entries of a log
IsHookCall(e) == e.h \in {"set", "post"}

\* C11: every hook call of a registration gets initial = true, every hook call
\* of a later assignment gets initial = false, the calls for the nested keys
\* that the assignment registers included.
InitialFlag ==
  \A i \in 1..Len(log) :
    (IsHookCall(log[i]) /\ last.op \in {"register", "write", "nested"})
      => (log[i].initial <=> last.op = "register")


\* C12: with an observing setter hook, an assignment (by register or by a later
\* write) calls the hook exactly once for the assigned key, exactly once for
\* every nested key it installs as an accessor, and for no other path.
ExactlyOneSetterCall ==
  (/\ last.op \in {"register", "write"}
   /\ last.val # Prim(Undef)
   /\ config.setter \in Observing
   /\ ~err)
    => /\ \A k \in TopKeys :
            SetterCalls(log, <<k>>) = IF InList(k, last.keys) THEN 1 ELSE 0
       /\ \A p \in NestedPaths :
            SetterCalls(log, p) =
              IF /\ InList(Head(p), last.keys)
                 /\ IsAccessor(Cur, FrontRead(Cur, Front(p)), Final(p))
              THEN 1 ELSE 0


\* p is a prefix of q
IsPrefix(p, q) == Len(p) <= Len(q) /\ SubSeq(q, 1, Len(p)) = p

\* positions of the log entries of the key path p and of its descendants
Under(l, p) == {i \in 1..Len(l) : IsPrefix(p, l[i].path)}

\* number of postSetter hook calls logged for a path
PostSetterCalls(l, path) ==
  Cardinality({i \in 1..Len(l) : l[i].h = "post" /\ l[i].path = path})

\* the entries of the key path p and of its descendants form one block that
\* starts with the setter hook of p and ends with the postSetter hook of p,
\* which is called once
OneBlock(l, p) ==
  Under(l, p) # {} =>
    LET lo == CHOOSE i \in Under(l, p) : \A j \in Under(l, p) : i <= j
        hi == CHOOSE i \in Under(l, p) : \A j \in Under(l, p) : j <= i
    IN /\ \A j \in lo..hi : j \in Under(l, p)
       /\ l[lo].h = "set" /\ l[lo].path = p
       /\ l[hi].h = "post" /\ l[hi].path = p
       /\ PostSetterCalls(l, p) = 1

\* the default write of a key comes after the setter hook of the key and before
\* every entry of its descendants
StoreInOrder(l) ==
  \A i \in 1..Len(l) :
    l[i].h = "store" =>
      /\ \E j \in 1..(i - 1) : l[j].h = "set" /\ l[j].path = l[i].path
      /\ \A j \in Under(l, l[i].path) : Len(l[j].path) > Len(l[i].path) => i < j

\* the nested keys of the assigned literal are handled in key order
SiblingsInOrder(l, k, tpl) ==
  \A i, j \in 1..Len(tpl.f) :
    i < j => \A m \in Under(l, <<k, tpl.f[i].key>>), n \in Under(l, <<k, tpl.f[j].key>>) : m < n

\* C13: in one assignment with setter and postSetter hooks, every key path has
\* one block of log entries: its setter hook, its default write unless vetoed,
\* the blocks of its nested keys in key order, and last its postSetter hook,
\* called exactly once, also after a veto.
HookOrder ==
  (/\ last.op \in {"register", "write"}
   /\ config.setter \in {"pass", "veto"}
   /\ config.postSetter = "pass"
   /\ ~err)
    => /\ \A i \in 1..Len(log) : OneBlock(log, log[i].path)
       /\ StoreInOrder(log)
       /\ SiblingsInOrder(log, last.keys[1], last.val)
       /\ last.val # Prim(Undef) => PostSetterCalls(log, <<last.keys[1]>>) = 1


\* C14: the prevVal of the setter and postSetter hook calls of a written key is
\* deep-equal, at the time of each call, to what the front read of the key
\* returned before the write: undefined for the first registration into an
\* empty backing store, the previous array or object when one is replaced.
PrevValIsPrevious ==
  [][(/\ last'.op \in {"register", "write"}
      /\ last'.op = "register" => nops = 0)
       => \A i \in 1..Len(log') :
            (IsHookCall(log'[i]) /\ log'[i].path = last'.keys)
              => log'[i].seen = View(Cur, FrontRead(Cur, last'.keys))]_vars


RECURSIVE ReactiveDownTo(_, _, _, _, _)
\* the keys of the literal tpl, read on the front value o at path, are
\* accessors carrying the configured hooks down to nesting level n, called by
\* the assignment logged in M.log, and plain data properties below it
ReactiveDownTo(M, o, path, tpl, n) ==
  \A i \in 1..Len(tpl.f) :
    LET k == tpl.f[i].key
        p == Append(path, k)
    IN /\ IF Len(path) <= n
          THEN /\ IsAccessor(M, o, k)
               /\ BindingOf(M, o, k).setter = config.setter
               /\ BindingOf(M, o, k).postSetter = config.postSetter
               /\ BindingOf(M, o, k).getter = config.getter
               /\ config.setter \in Observing => SetterCalls(M.log, p) >= 1
          ELSE /\ HasOwn(M, o, k)
               /\ ~IsAccessor(M, o, k)
               /\ SetterCalls(M.log, p) = 0
       /\ Eligible(tpl.f[i].tpl) =>
            ReactiveDownTo(M, ReadProp(M, o, k), p, tpl.f[i].tpl, n)

\* C15: after an eligible literal is registered (not recursively) at or
\* assigned to a key under a numeric depth N or no depth, the keys at the
\* nesting levels 1..N are accessors that call the hooks and everything
\* below level N is plain data that calls no hook.
NumericDepthLimit ==
  \A k \in TopKeys :
    (/\ last.op \in {"register", "write"}
     /\ InList(k, last.keys)
     /\ Eligible(last.val)
     /\ config.depth.t \in {"num", "unset"}
     /\ IsAccessor(Cur, Target, k)
     /\ ~BindingOf(Cur, Target, k).recursive)
      => ReactiveDownTo([Cur EXCEPT !.log = log], FrontRead(Cur, <<k>>), <<k>>,
                        last.val, config.depth.n)

\* under depth 2 a three-level literal replaced an earlier sub-tree: levels 1
\* and 2 are accessors, level 3 is plain
NumericDepthLimitWitness ==
  /\ config.depth = DepthNum(2)
  /\ last.op = "write"
  /\ last.val = ObjABC
  /\ IsRef(held.v)
  /\ ~BindingOf(Cur, Target, "foo").recursive
  /\ IsAccessor(Cur, FrontRead(Cur, <<"foo">>), "a")
  /\ IsAccessor(Cur, FrontRead(Cur, <<"foo", "a">>), "b")
  /\ ~IsAccessor(Cur, FrontRead(Cur, <<"foo", "a", "b">>), "c")
  /\ FrontRead(Cur, <<"foo", "a", "b", "c">>) = Num(4)


RECURSIVE LayerAt(_, _)
\* the configuration object written for nesting level d: the d-th nested depth
\* configuration, no options where the nesting of configurations ends
LayerAt(c, d) ==
  IF d = 0 THEN c
  ELSE IF c.depth.t = "cfg" THEN LayerAt(c.depth.c[1], d - 1)
  ELSE EmptyConfig

RECURSIVE ReactiveEverywhere(_, _, _, _)
\* every key of the literal tpl, read on the front value o at path, is an
\* accessor at every level, called by the assignment logged in M.log, with
\* the hooks and the filter its own configured layer specifies
ReactiveEverywhere(M, o, path, tpl) ==
  \A i \in 1..Len(tpl.f) :
    LET k == tpl.f[i].key
        p == Append(path, k)
        own == LayerAt(config, Len(path))
    IN /\ IsAccessor(M, o, k)
       /\ own.setter # "unset" => BindingOf(M, o, k).setter = own.setter
       /\ own.postSetter # "unset" => BindingOf(M, o, k).postSetter = own.postSetter
       /\ own.depthFilter # "unset" => BindingOf(M, o, k).depthFilter = own.depthFilter
       /\ BindingOf(M, o, k).setter \in Observing \cup {"veto"} => SetterCalls(M.log, p) >= 1
       /\ Eligible(tpl.f[i].tpl) =>
            ReactiveEverywhere(M, ReadProp(M, o, k), p, tpl.f[i].tpl)

InertLeaf(M, o, k) ==
  LET x == ReadProp(M, o, k)
  IN /\ IsAccessor(M, o, k)
     /\ IsRef(x)
     /\ M.heap[x.v].kind = "inst"
     /\ x = MakeGetter(M, BindingOf(M, o, k).endpoint, k)
     /\ \A i \in 1..Len(M.heap[x.v].props) : ~M.heap[x.v].props[i].acc

\* C17: under the default depth filter a class instance assigned to a
\* depth-enabled key, at the top level or nested in an eligible literal, is
\* read back as the stored object itself with no accessor on it, the
\* assignment calls no hook for its keys, and a later write of one of its
\* properties calls no hook at all.
FilterLeafPolicy ==
  /\ (/\ last.op \in {"register", "write"}
      /\ IsAccessor(Cur, Target, "foo")
      /\ BindingOf(Cur, Target, "foo").hasDepth
      /\ config.setter \in Observing \cup {"unset"}
      /\ ~err)
       => /\ (last.val = InstA /\ BindingOf(Cur, Target, "foo").depthFilter = "literal")
               => /\ InertLeaf(Cur, Target, "foo")
                  /\ FrontRead(Cur, <<"foo">>) = BackRead(Cur, <<"foo">>)
                  /\ \A i \in 1..Len(log) : log[i].path = <<"foo">>
          /\ (/\ last.val = ObjInst
              /\ IsAccessor(Cur, FrontRead(Cur, <<"foo">>), "a")
              /\ BindingOf(Cur, FrontRead(Cur, <<"foo">>), "a").hasDepth
              /\ BindingOf(Cur, FrontRead(Cur, <<"foo">>), "a").depthFilter = "literal")
               => /\ InertLeaf(Cur, FrontRead(Cur, <<"foo">>), "a")
                  /\ \A i \in 1..Len(log) : Len(log[i].path) <= 2
  /\ (/\ last.op = "nested"
      /\ IsRef(FrontRead(Cur, Front(last.keys)))
      /\ heap[FrontRead(Cur, Front(last.keys)).v].kind = "inst")
       => log = <<>>

\* a class instance nested in a literal was assigned under an infinite depth
\* and is read back as an inert leaf
FilterLeafPolicyWitness ==
  /\ last.op = "write"
  /\ last.val = ObjInst
  /\ config.depth = DepthInf
  /\ config.setter = "pass"
  /\ IsRef(held.v)
  /\ BindingOf(Cur, FrontRead(Cur, <<"foo">>), "a").hasDepth
  /\ InertLeaf(Cur, FrontRead(Cur, <<"foo">>), "a")
  /\ FrontRead(Cur, <<"foo", "a", "a">>) = Num(1)
  /\ SetterCalls(log, <<"foo", "a">>) = 1


RECURSIVE Inherited(_, _, _)
\* the option `field` that applies at nesting level d: what the layer written
\* for level d specifies, else what applies one level above
Inherited(c, d, field) ==
  IF d = 0 THEN c[field]
  ELSE IF LayerAt(c, d)[field] # "unset" THEN LayerAt(c, d)[field]
  ELSE Inherited(c, d - 1, field)

\* the accessor o[k] at nesting level d carries the options that apply there
CarriesLayer(M, o, k, d) ==
  LET b == BindingOf(M, o, k)
  IN /\ b.setter = Inherited(config, d, "setter")
     /\ b.getter = Inherited(config, d, "getter")
     /\ b.postSetter = Inherited(config, d, "postSetter")
     /\ b.depthFilter =
          (IF Inherited(config, d, "depthFilter") = "unset" THEN "literal"
           ELSE Inherited(config, d, "depthFilter"))
     /\ M.heap[o.v].props[PropIdx(M.heap[o.v].props, k)].enum
          = (Inherited(config, d, "enumerable") # "false")

FalseSetterNotInherited ==
  (/\ config.depth.t = "cfg"
   /\ config.depth.c[1].setter = "false"
   /\ last.op \in {"register", "write"}
   /\ Eligible(last.val))
    => /\ ~err
       /\ SetterCalls(log, <<"foo">>) = 1
       /\ \A i \in 1..Len(log) : log[i].h = "set" => log[i].path = <<"foo">>
       /\ \A j \in 1..Len(last.val.f) :
            \E i \in 1..Len(log) :
              log[i].h = "store" /\ log[i].path = <<"foo", last.val.f[j].key>>


\* the own property descriptor of o[k]
Descriptor(M, o, k) == M.heap[o.v].props[PropIdx(M.heap[o.v].props, k)]

GetterCallsPerRead ==
  LET RECURSIVE PathCalls(_, _)
      PathCalls(o, path) ==
        IF path = <<>> THEN <<>>
        ELSE ReadCalls(Cur, o, Head(path))
             \o PathCalls(ReadProp(Cur, o, Head(path)), Tail(path))
      Registered(p) ==
        \A n \in 1..Len(p) :
          IsAccessor(Cur, FrontRead(Cur, SubSeq(p, 1, n - 1)), p[n])
  IN config.getter # "unset" =>
       /\ last.op = "register" => gets = <<>>
       /\ \A p \in {<<k>> : k \in TopKeys} \cup NestedPaths :
            Registered(p) =>
              /\ Len(PathCalls(Target, p)) = Len(p)
              /\ \A n \in 1..Len(p) : PathCalls(Target, p)[n].path = SubSeq(p, 1, n)


\* C23: in a normalized chain of N configurations the backing store of every
\* configuration but the last is the front object of the next one, a backing
\* store supplied for such a configuration is discarded (nothing is ever
\* stored in it), supplied front objects are kept by identity, the last
\* backing store is the supplied one or else a fresh object, empty until a
\* key is registered, and the exposed endpoint is the last backing store
\* while target is targets[0].
ChainLinking ==
  LET N == Len(chain)
      d == GetDataFromConfigs(chain)
      Supplied == {Ref(1), Ref(2), Ref(3)}
      Containers == [i \in 1..(N + 1) |-> IF i <= N THEN chain[i].target
                                           ELSE chain[N].endpoint]
  IN Len(caller.set) >= 1 =>
       /\ N = Len(caller.set)
       /\ \A i \in 1..(N - 1) :
            /\ chain[i].endpoint = chain[i + 1].target
            /\ caller.set[i].endpoint # Undef =>
                 /\ chain[i].endpoint # caller.set[i].endpoint
                 /\ heap[caller.set[i].endpoint.v].props = <<>>
       /\ \A i \in 1..N :
            IF caller.set[i].target # Undef
            THEN chain[i].target = caller.set[i].target
            ELSE IsRef(chain[i].target) /\ chain[i].target \notin Supplied
       /\ IF caller.set[N].endpoint # Undef
          THEN chain[N].endpoint = caller.set[N].endpoint
          ELSE /\ IsRef(chain[N].endpoint)
               /\ chain[N].endpoint \notin Supplied
               /\ nops = 0 => heap[chain[N].endpoint.v].props = <<>>
       /\ \A i, j \in 1..(N + 1) : i # j => Containers[i] # Containers[j]
       /\ d.endpoint = chain[N].endpoint
       /\ d.target = d.targets[1]
       /\ \A i \in 1..N : d.targets[i] = chain[i].target

\* two configurations, the first with a supplied backing store and the
\* second with a supplied front object: after 62 was registered the supplied
\* backing store is still empty and the value is in the fresh last one
ChainLinkingWitness ==
  /\ Len(caller.set) = 2
  /\ caller.set[1].endpoint = Ref(2)
  /\ chain[2].target = Ref(1)
  /\ last.op = "register"
  /\ last.val = Prim(Num(62))
  /\ heap[2].props = <<>>
  /\ MakeGetter(Cur, chain[2].endpoint, "foo") = Num(62)
  /\ ReadProp(Cur, chain[1].target, "foo") = Num(62)


\* C24: a write to targets[i][k] of a chain calls the setter hooks of the
\* layers i, i+1, ... in that order, each once, before the value reaches the
\* leaf endpoint, and no hook of a layer before i; when the setter hook of a
\* layer vetoes, no hook and no write of a later layer happens and the leaf
\* endpoint keeps its value.
ChainWritePropagation ==
  [][(last'.op = "write" /\ Len(chain) >= 1)
       => LET N == Len(chain)
              i == last'.layer
              k == last'.keys[1]
              leaf == chain[N].endpoint
              After == [heap |-> heap', binds |-> binds', log |-> <<>>,
                        gets |-> <<>>, err |-> FALSE, stack |-> 0]
              LayerOf(e) == CHOOSE j \in 1..N : chain[j].target = e.on
              Vetoes == {j \in i..N : chain[j].setter = "veto"}
              v == IF Vetoes = {} THEN N + 1
                   ELSE CHOOSE j \in Vetoes : \A m \in Vetoes : j <= m
              Sel(h) == SelectSeq(log', LAMBDA e : e.h = h)
              WithHook == {j \in i..N : j <= v /\ chain[j].setter # "unset"}
          IN /\ ~err'
             /\ \A n \in 1..Len(log') : log'[n].path = <<k>> /\ LayerOf(log'[n]) >= i
             /\ Len(Sel("set")) = Cardinality(WithHook)
             /\ \A n \in 1..Len(Sel("set")) :
                  /\ LayerOf(Sel("set")[n]) \in WithHook
                  /\ n > 1 => LayerOf(Sel("set")[n - 1]) < LayerOf(Sel("set")[n])
             /\ Len(Sel("store")) = v - i
             /\ \A n \in 1..Len(Sel("store")) : LayerOf(Sel("store")[n]) = i + n - 1
             /\ \A n, m \in 1..Len(log') :
                  (log'[n].h = "set" /\ log'[m].h = "store"
                   /\ LayerOf(log'[m]) >= LayerOf(log'[n])) => n < m
             /\ IF v <= N
                THEN MakeGetter(After, leaf, k) = MakeGetter(Cur, leaf, k)
                ELSE DeepEqual(After, MakeGetter(After, leaf, k), last'.val)]_vars

\* in a chain of three layers whose second setter hook vetoes, 62 was
\* assigned to targets[0].foo: the first and the second setter hook were
\* called, the third was not, and the leaf endpoint does not hold 62
ChainWritePropagationWitness ==
  /\ Len(chain) = 3
  /\ chain[2].setter = "veto"
  /\ last.op = "write"
  /\ last.layer = 1
  /\ last.val = Prim(Num(62))
  /\ Len(log) >= 3
  /\ log[1].h = "set" /\ log[1].on = chain[1].target
  /\ log[2].h = "store" /\ log[2].on = chain[1].target
  /\ log[3].h = "set" /\ log[3].on = chain[2].target
  /\ \A n \in 1..Len(log) : log[n].on # chain[3].target
  /\ MakeGetter(Cur, chain[3].endpoint, "foo") # Num(62)


\* C25: reading targets[i][k] of a chain returns the leaf value transformed
\* by the getter hooks of the layers N-1 down to i in that order (a hook that
\* returns undefined leaves the value as it is), and the read calls the getter
\* hook of each layer i..N-1 that has one exactly once, the last layer first,
\* each with the value the layer below returned.
ChainReadComposition ==
  LET N == Len(chain)
      leaf == chain[N].endpoint
      RECURSIVE Composed(_, _)
      \* what layer i returns for key k
      Composed(i, k) ==
        LET below == IF i = N THEN MakeGetter(Cur, leaf, k) ELSE Composed(i + 1, k)
            r == GetterHook(chain[i].getter, below)
        IN IF chain[i].getter = "unset" \/ r \in {Undef, Null} THEN below ELSE r
      WithHook(i) == {j \in i..N : chain[j].getter # "unset"}
  IN \A i \in 1..N, k \in TopKeys :
       IsAccessor(Cur, chain[i].target, k) =>
         LET calls == ReadCalls(Cur, chain[i].target, k)
             LayerOf(e) == CHOOSE j \in 1..N : chain[j].target = e.on
         IN /\ ReadProp(Cur, chain[i].target, k) = Composed(i, k)
            /\ Len(calls) = Cardinality(WithHook(i))
            /\ \A n \in 1..Len(calls) :
                 /\ LayerOf(calls[n]) \in WithHook(i)
                 /\ n > 1 => LayerOf(calls[n - 1]) > LayerOf(calls[n])
                 /\ calls[n].path = <<k>>
                 /\ calls[n].val = (IF LayerOf(calls[n]) = N THEN MakeGetter(Cur, leaf, k)
                                    ELSE Composed(LayerOf(calls[n]) + 1, k))

\* the leaf holds 62 under a round-to-5 getter at the last layer and a
\* round-to-50 getter at the first: targets[1] reads 60 and targets[0] reads
\* 50, with one call of each hook
ChainReadCompositionWitness ==
  /\ Len(chain) = 2
  /\ chain[1].getter = "round50"
  /\ chain[2].getter = "round5"
  /\ IsAccessor(Cur, chain[1].target, "foo")
  /\ MakeGetter(Cur, chain[2].endpoint, "foo") = Num(62)
  /\ ReadProp(Cur, chain[2].target, "foo") = Num(60)
  /\ ReadProp(Cur, chain[1].target, "foo") = Num(50)
  /\ Len(ReadCalls(Cur, chain[1].target, "foo")) = 2
  /\ ReadCalls(Cur, chain[1].target, "foo")[1].val = Num(62)
  /\ ReadCalls(Cur, chain[1].target, "foo")[2].val = Num(60)


\* C26: delete(k) on a chain whose first target has k returns true and
\* removes k from every target and from the leaf endpoint; every other key
\* stays on every target it was on, with the value it read, and in the leaf
\* endpoint; delete(k) of a key that is not registered returns false and
\* changes nothing.
ChainDelete ==
  [][last'.op = "delete"
       => LET d == GetDataFromConfigs(chain)
              k == last'.keys[1]
              After == [heap |-> heap', binds |-> binds', log |-> <<>>,
                        gets |-> <<>>, err |-> FALSE, stack |-> 0]
              All == [i \in 1..(Len(chain) + 1) |->
                        IF i <= Len(chain) THEN d.targets[i] ELSE d.endpoint]
          IN /\ last'.ret = HasOwn(Cur, d.target, k)
             /\ ~err'
             /\ \A i \in 1..Len(All) :
                  /\ ~HasOwn(Cur, d.target, k) => heap'[All[i].v] = heap[All[i].v]
                  /\ HasOwn(Cur, d.target, k) => ~HasOwn(After, All[i], k)
                  /\ \A j \in TopKeys \ {k} :
                       /\ HasOwn(After, All[i], j) = HasOwn(Cur, All[i], j)
                       /\ IsAccessor(After, All[i], j) = IsAccessor(Cur, All[i], j)
                       /\ i <= Len(chain) =>
                            ReadProp(After, All[i], j) = ReadProp(Cur, All[i], j)
                       /\ MakeGetter(After, d.endpoint, j) = MakeGetter(Cur, d.endpoint, j)]_vars

\* foo and bar were registered on a chain of three targets and foo was
\* deleted: no target and not the endpoint has foo, every target has bar
ChainDeleteWitness ==
  /\ Len(chain) = 3
  /\ last.op = "delete"
  /\ last.keys = <<"foo">>
  /\ last.ret
  /\ \A i \in 1..3 :
       /\ ~HasOwn(Cur, chain[i].target, "foo")
       /\ IsAccessor(Cur, chain[i].target, "bar")
  /\ ~HasOwn(Cur, chain[3].endpoint, "foo")
  /\ MakeGetter(Cur, chain[3].endpoint, "bar") = Num(62)


\* C27: in every state of a registered key k, holding a primitive, an inert
\* object or a live reactive sub-tree, after the caller assigns backing[k] = x
\* directly, front[k] reads x when no getter hook is configured.
ReadsRederive ==
  [][(last'.op = "poke" /\ Len(last'.keys) = 1 /\ config.getter = "unset"
      /\ IsAccessor(Cur, Target, last'.keys[1]))
       => ReadProp([heap |-> heap', binds |-> binds', log |-> <<>>, gets |-> <<>>,
                    err |-> FALSE, stack |-> 0], Target, last'.keys[1]) = last'.val.p]_vars


\* C28: a registration call with a key that is no string, number or symbol,
\* or with a target that is no object, raises an error before any accessor is
\* defined and before any backing write: the call ends with the error and
\* the front object and the backing store are as before.
InvalidArgumentsRejected ==
  [][(last'.op = "badkey"
      \/ (last'.op = "register" /\ ~IsRef(Target)))
       => /\ err'
          /\ IsRef(Target) => heap'[Target.v] = heap[Target.v]
          /\ heap'[Endpoint.v] = heap[Endpoint.v]]_vars


\* C29: when installing a key throws, because a setter or postSetter hook
\* throws during the initial assignment of the key or of one of its nested
\* keys, nothing is committed for the key: the front object has the property
\* it had for the key before (none for a new key, so has(k) is false) and
\* the backing store holds what it held for the key before.
AtomicInstallation ==
  [][(last'.op = "register" /\ err' /\ IsRef(Target))
       => LET k == last'.keys[1]
              After == [heap |-> heap', binds |-> binds', log |-> <<>>,
                        gets |-> <<>>, err |-> FALSE, stack |-> 0]
              PropOf(M, o) == IF HasOwn(M, o, k) THEN <<Descriptor(M, o, k)>> ELSE <<>>
          IN /\ PropOf(After, Target) = PropOf(Cur, Target)
             /\ Has(After, k) = Has(Cur, k)
             /\ PropOf(After, Endpoint) = PropOf(Cur, Endpoint)]_vars


\* C30: the configuration objects the caller supplied are never mutated:
\* after the construction and after every later registration, write and
\* delete, every field of every one of them, its backing store reference, its
\* depth and its hooks included, is what the caller set.
ConfigsNotMutated ==
  /\ Len(caller.now) = Len(caller.set)
  /\ \A i \in 1..Len(caller.set) : caller.now[i] = caller.set[i]


\* C31: default containers are never shared. In every state the targets and
\* endpoints of the current storage and of the caller's other storages (earlier
\* instances, static registrations without a configuration) are pairwise
\* distinct objects, and a step (construction, static or instance registration,
\* front write, nested write, direct backing write, delete) made through one
\* storage leaves what the target and the endpoint of every other storage
\* contain as they were.
DefaultsNeverShared ==
  [][LET After == [heap |-> heap', binds |-> binds', log |-> <<>>, gets |-> <<>>,
                   err |-> FALSE, stack |-> 0]
         Boxes(q) == [i \in 1..(2 * Len(q)) |->
                        IF i % 2 = 1 THEN q[(i + 1) \div 2].target
                        ELSE q[i \div 2].endpoint]
         Now == Boxes(Append(stores', config'))
         Others == IF last'.op \in {"new", "static"} THEN Append(stores, config)
                   ELSE stores
     IN /\ \A i, j \in 1..Len(Now) : i # j => Now[i] # Now[j]
        /\ \A i \in 1..Len(Now) : IsRef(Now[i])
        /\ \A i \in 1..Len(Others) :
             /\ Snapshot(After, Others[i].target) = Snapshot(Cur, Others[i].target)
             /\ Snapshot(After, Others[i].endpoint) = Snapshot(Cur, Others[i].endpoint)
    ]_vars

\* C31 witness: the caller holds two other storages with registered keys, one
\* from a static registration and one earlier instance, and has just written
\* through the current one
DefaultsNeverSharedWitness ==
  /\ Len(stores) = 2
  /\ \E i, j \in 1..2 :
       /\ i # j
       /\ IsAccessor(Cur, stores[i].target, "foo")
       /\ ReadProp(Cur, stores[i].target, "foo") = Num(3)
       /\ stores[j].target # stores[i].target
  /\ last.op = "register"
  /\ IsAccessor(Cur, Target, "foo")
  /\ IsRef(FrontRead(Cur, <<"foo">>))


\* C32: in every registration layer the front object and the backing store are
\* different references. In every state this holds for the normalized
\* configuration of the storage, for every layer of its definition chain, for
\* the target and endpoint every accessor was registered with, and for the
\* derived configuration (depthOpts) of every accessor that holds a sub-tree,
\* whose target is a container of its own.
FrontBackDistinct ==
  /\ IsRef(config.target)
  /\ config.target # config.endpoint
  /\ \A i \in 1..Len(chain) :
       /\ IsRef(chain[i].target)
       /\ chain[i].target # chain[i].endpoint
  /\ \A id \in 1..Len(binds) :
       /\ IsRef(binds[id].target)
       /\ binds[id].target # binds[id].endpoint
       /\ binds[id].mode = "deep" =>
            /\ IsRef(binds[id].depthOpts.target)
            /\ binds[id].depthOpts.target # binds[id].depthOpts.endpoint
            /\ binds[id].depthOpts.target # binds[id].target
            /\ binds[id].depthOpts.target # binds[id].endpoint

\* C32 witness: on a chain of at least two layers an accessor holds a sub-tree
\* whose derived endpoint is itself a target that carries accessors (the
\* sub-tree of the next layer or of an earlier assignment), and a nested
\* accessor is registered on the sub-tree target
FrontBackDistinctWitness ==
  /\ Len(chain) >= 2
  /\ \E id, old, n \in 1..Len(binds) :
       /\ binds[id].mode = "deep"
       /\ binds[old].target = binds[id].depthOpts.endpoint
       /\ binds[n].target = binds[id].depthOpts.target
       /\ Len(binds[n].path) = 2
       /\ IsAccessor(Cur, binds[n].target, binds[n].key)


\* C33: keys registered together have independent accessor state. After
\* register(['foo', 'bar'], v) every key reads a value deep-equal to v, and a
\* write to front[ki] or below it leaves what front[kj] and backing[kj] read
\* for the other key kj (its live sub-tree included) as it was, provided the
\* two keys do not hold the very same object as value.
IndependentKeys ==
  [][LET After == [heap |-> heap', binds |-> binds', log |-> <<>>, gets |-> <<>>,
                   err |-> FALSE, stack |-> 0]
         ki == last'.keys[1]
     IN /\ (last'.op = "register" /\ ~err' /\ last'.val # Prim(Undef)) =>
             \A k \in TopKeys : DeepEqual(After, FrontRead(After, <<k>>), last'.val)
        /\ (last'.op \in {"write", "nested"} /\ ~err') =>
             \A kj \in TopKeys \ {ki} :
               (/\ IsAccessor(Cur, Target, kj)
                /\ ~(IsRef(BackRead(Cur, <<ki>>))
                     /\ BackRead(Cur, <<ki>>) = BackRead(Cur, <<kj>>)))
               => /\ Snapshot(After, FrontRead(After, <<kj>>))
                       = Snapshot(Cur, FrontRead(Cur, <<kj>>))
                  /\ Snapshot(After, BackRead(After, <<kj>>))
                       = Snapshot(Cur, BackRead(Cur, <<kj>>))
    ]_vars


\* C34: registerFrom(obj) registers every own enumerable string key and every
\* own symbol key of obj with its value. After the call every target of the
\* chain has these keys, and no other new key, as accessors; when no layer has
\* an intercepting hook, front[key] on every target and the slot of the leaf
\* endpoint equal obj[key]; a key whose value is undefined is registered
\* without a setter call and without a write to the endpoint (it reads what the
\* endpoint held before, undefined for a new key), and a key with a value is
\* passed to the setter hook of the first layer.
RegisterFromKeys ==
  [][(last'.op = "from" /\ ~err') =>
       LET After == [heap |-> heap', binds |-> binds', log |-> <<>>, gets |-> <<>>,
                     err |-> FALSE, stack |-> 0]
           props == heap'[Len(heap) + 1].props
           Expected == {props[i].key :
                          i \in {j \in 1..Len(props) :
                                   props[j].key \in {"@@id"} \/ props[j].enum}}
           Val(k) == props[PropIdx(props, k)].val
           Keys(M, o) == {M.heap[o.v].props[i].key : i \in 1..Len(M.heap[o.v].props)}
           Plain == \A i \in 1..Len(chain) :
                      /\ chain[i].setter \in {"unset", "pass", "pass2"}
                      /\ chain[i].getter \in {"unset", "pass"}
           leaf == chain[Len(chain)].endpoint
       IN /\ \A i \in 1..Len(chain) :
               /\ Keys(After, chain[i].target) = Keys(Cur, chain[i].target) \cup Expected
               /\ \A k \in Expected : IsAccessor(After, chain[i].target, k)
               /\ Plain => \A k \in Expected :
                    ReadProp(After, chain[i].target, k)
                      = IF Val(k) # Undef THEN Val(k) ELSE MakeGetter(Cur, leaf, k)
          /\ \A k \in Expected :
               IF Val(k) = Undef
               THEN /\ \A e \in 1..Len(log') : log'[e].path # <<k>>
                    /\ MakeGetter(After, leaf, k) = MakeGetter(Cur, leaf, k)
               ELSE /\ Plain => MakeGetter(After, leaf, k) = Val(k)
                    /\ chain[1].setter # "unset" =>
                         \E e \in 1..Len(log') :
                           /\ log'[e].h = "set"
                           /\ log'[e].path = <<k>>
                           /\ log'[e].val = Val(k)
                           /\ log'[e].on = chain[1].target
     ]_vars

\* C34 witness: registerFrom was called on a chain of at least two layers with
\* an object that has an enumerable string key with a value, one whose value
\* is undefined, a symbol key, and a non-enumerable string key that is skipped
RegisterFromKeysWitness ==
  /\ last.op = "from"
  /\ ~err
  /\ Len(chain) >= 2
  /\ \E o \in 1..Len(heap) :
       LET props == heap[o].props
       IN /\ \E i, j, s \in 1..Len(props) :
               /\ props[i].enum /\ props[i].key = "foo" /\ props[i].val # Undef
               /\ props[j].enum /\ props[j].key = "bar" /\ props[j].val = Undef
               /\ props[s].key = "@@id" /\ props[s].val = Num(62)
          /\ \A i \in 1..Len(chain) :
               /\ IsAccessor(Cur, chain[i].target, "foo")
               /\ IsAccessor(Cur, chain[i].target, "bar")
               /\ IsAccessor(Cur, chain[i].target, "@@id")
  /\ \E o \in 1..Len(heap) :
       /\ Len(heap[o].props) = 3
       /\ ~heap[o].props[2].enum
       /\ heap[o].props[2].key = "bar"
       /\ ~heap[o].props[2].acc


\* explicit nested configurations, empty or with an enumerable of their own,
\* below a configuration with observing hooks
SpecExplicit ==
  /\ InitWith({WithEnumerable(WithDepth(Hooked, DepthCfg(EmptyConfig)), "false"),
               WithDepth(Hooked, DepthCfg(EmptyConfig)),
               WithEnumerable(WithDepth(Hooked, DepthCfg(WithEnumerable(EmptyConfig, "true"))),
                              "false")})
  /\ [][\/ \E tpl \in {Prim(Undef), Prim(Num(3)), ObjA, ObjAB}, r \in BOOLEAN :
            DoRegister(<<"foo">>, tpl, r)
        \/ \E tpl \in {Prim(Num(3)), ObjA, ObjAB} : DoWrite("foo", tpl)
        \/ \E path \in LayerPaths, tpl \in NestedValues : DoWriteNested(path, tpl)]_vars

\* C35: with an explicit depth configuration that has no hooks of its own,
\* even an empty one, a recursive registration of {a: {b: 3}} calls the setter
\* hook and the postSetter hook exactly once, for the registered key, and no
\* getter hook; a read of the registered key then calls the getter hook
\* exactly once; the nested key a is non-enumerable when the parent is and
\* the depth configuration does not say otherwise.
ExplicitDepthNoInherit ==
  (/\ config.depth.t = "cfg"
   /\ config.depth.c[1].setter = "unset"
   /\ config.depth.c[1].getter = "unset"
   /\ config.depth.c[1].postSetter = "unset"
   /\ last.op = "register"
   /\ last.rec
   /\ last.val = ObjAB
   /\ ~err)
    => /\ \A i \in 1..Len(log) : log[i].h \in {"set", "post"} => log[i].path = <<"foo">>
       /\ Cardinality({i \in 1..Len(log) : log[i].h = "set"}) = 1
       /\ Cardinality({i \in 1..Len(log) : log[i].h = "post"}) = 1
       /\ gets = <<>>
       /\ Len(ReadCalls(Cur, Target, "foo")) = 1
       /\ (config.enumerable = "false" /\ config.depth.c[1].enumerable = "unset")
            => LET foo == FrontRead(Cur, <<"foo">>)
               IN /\ IsAccessor(Cur, foo, "a")
                  /\ ~heap[foo.v].props[PropIdx(heap[foo.v].props, "a")].enum




\* C36: a front write or a nested write never removes or replaces the
\* accessor of a registered key: the key is still an own accessor of the
\* front object with the same descriptor and the same hooks, whether the value
\* was a primitive, an eligible or an ineligible object, or the write was
\* vetoed or threw; the write itself reached the setter hook, and a later
\* read still reaches the getter hook.
AccessorPersists ==
  [][\A k \in TopKeys :
       (IsAccessor(Cur, Target, k) /\ last'.op \in {"write", "nested"}) =>
         LET After == [heap |-> heap', binds |-> binds', log |-> <<>>, gets |-> <<>>,
                       err |-> FALSE, stack |-> 0]
             p == heap[Target.v].props[PropIdx(heap[Target.v].props, k)]
             b == binds[p.b]
         IN /\ IsAccessor(After, Target, k)
            /\ heap'[Target.v].props[PropIdx(heap'[Target.v].props, k)] = p
            /\ binds'[p.b].setter = b.setter
            /\ binds'[p.b].getter = b.getter
            /\ binds'[p.b].postSetter = b.postSetter
            /\ (last'.op = "write" /\ last'.keys = <<k>> /\ b.setter # "unset") =>
                 \E e \in 1..Len(log') :
                   /\ log'[e].h = "set"
                   /\ log'[e].path = <<k>>
                   /\ log'[e].fn = b.setter
            /\ b.getter # "unset" =>
                 \E e \in 1..Len(ReadCalls(After, Target, k)) :
                   /\ ReadCalls(After, Target, k)[e].path = <<k>>
                   /\ ReadCalls(After, Target, k)[e].fn = b.getter
    ]_vars

\* C36 witness: after a registration and two front writes, the last one an
\* object write vetoed by the setter hook, the key is an accessor of the front
\* object and the write was passed to the setter hook
AccessorPersistsWitness ==
  /\ nops = 3
  /\ last.op = "write"
  /\ last.val = ObjA
  /\ config.setter = "veto"
  /\ ~err
  /\ IsAccessor(Cur, Target, "foo")
  /\ BindingOf(Cur, Target, "foo").mode = "deep"
  /\ \E e \in 1..Len(log) : log[e].h = "set" /\ log[e].path = <<"foo">>
  /\ Len(ReadCalls(Cur, Target, "foo")) > 0


\* a Map as backing store, with and without hooks and depth; the caller also
\* registers a key that every plain object inherits
SpecMap ==
  /\ InitWith({WithMap(EmptyConfig),
               WithMap(Hooked),
               WithMap(WithSetter(Hooked, "veto")),
               WithMap(WithDepth(Hooked, DepthInf)),
               WithMap(WithDepth(EmptyConfig, DepthNum(1)))})
  /\ [][\/ \E keys \in KeyLists \cup {<<"constructor">>}, r \in BOOLEAN,
              tpl \in {Prim(Undef), Prim(Num(3)), ObjA} : DoRegister(keys, tpl, r)
        \/ \E k \in TopKeys, tpl \in {Prim(Num(3)), Prim(Num(62)), ObjA} : DoWrite(k, tpl)
        \/ \E path \in NestedPaths, tpl \in NestedValues : DoWriteNested(path, tpl)
        \/ \E k \in TopKeys : DoDelete(k)]_vars

\* C37: a storage whose backing store is a Map takes every step as the same
\* storage with a plain object as backing store takes it: the same register,
\* front write or delete call, made on the state in which the Map is a plain
\* object holding the Map's entries as properties, makes the same hook calls
\* with the same arguments, raises the same error, returns the same value,
\* leaves the same heap (the Map's entries being the object's properties),
\* and every registered key of the front object reads the same value.
MapLikePlainObject ==
  [][(heap[Endpoint.v].kind = "map" /\ last'.op \in {"register", "write", "delete"}) =>
       LET Plain(M) == [M EXCEPT !.heap[Endpoint.v].kind = "obj"]
           After == [heap |-> heap', binds |-> binds', log |-> <<>>, gets |-> <<>>,
                     err |-> FALSE, stack |-> 0]
           Run(I) ==
             CASE last'.op = "register" ->
                    [m |-> RegisterGeneric(I.m, last'.keys, I.v, config, last'.rec),
                     ret |-> FALSE]
               [] last'.op = "write" ->
                    [m |-> WriteProp(I.m, Target, last'.keys[1], I.v), ret |-> FALSE]
               [] OTHER -> Delete(Plain(Cur), last'.keys[1])
           Same(R) ==
             /\ R.m.log = log'
             /\ R.m.gets = gets'
             /\ R.m.err = err'
             /\ R.ret = last'.ret
             /\ R.m.heap = Plain(After).heap
             /\ R.m.binds = binds'
             /\ \A k \in TopKeys \cup {"constructor"} :
                  IsAccessor(After, Target, k) =>
                    /\ ReadProp(R.m, Target, k) = ReadProp(After, Target, k)
                    /\ ReadCalls(R.m, Target, k) = ReadCalls(After, Target, k)
       IN Same(Run(IF last'.op = "delete" THEN [m |-> Cur, v |-> Undef]
                   ELSE Instantiate(Plain(Cur), last'.val)))
    ]_vars


\* numeric and infinite depth; the caller assigns literals and values that lie
\* on a cycle
SpecCyclic ==
  /\ InitWith({WithDepth(EmptyConfig, DepthNum(1)),
               WithDepth(EmptyConfig, DepthNum(2)),
               WithDepth(Hooked, DepthNum(1)),
               WithDepth(EmptyConfig, DepthInf)})
  /\ [][\/ \E tpl \in {Prim(Num(3)), ObjA, ObjAB}, r \in BOOLEAN :
            DoRegister(<<"foo">>, tpl, r)
        \/ \E tpl \in {Prim(Num(3)), ObjA, ObjAB} : DoWrite("foo", tpl)
        \/ \E shape \in {"self", "pair", "front"} : DoWriteGraph("foo", shape)
        \/ \E path \in {<<"foo", "a">>, <<"foo", "a", "b">>}, tpl \in NestedValues :
            DoWriteNested(path, tpl)]_vars

\* C38: a registration or an assignment of a finite acyclic value under
\* infinite depth returns (the call stack is not exhausted), after any earlier
\* assignments; under a numeric depth N every assignment to a key registered
\* with register returns, also for a value that lies on a cycle, and no
\* accessor is installed more than N levels below the registered key.
AssignmentTerminates ==
  [][/\ (config.depth.t = "inf" /\ last'.op \in {"register", "write", "nested"}) => ~err'
     /\ (/\ config.depth.t = "num"
         /\ last'.op \in {"register", "write", "nested", "graph"}
         /\ \A i \in 1..Len(binds') : ~binds'[i].recursive)
          => /\ ~err'
             /\ \A i \in (Len(binds) + 1)..Len(binds') :
                  Len(binds'[i].path) <= config.depth.n + 1
    ]_vars


\* hooks that re-enter the storage: a setter hook that reads the key it is
\* called for and writes another key, a postSetter hook that assigns the key
\* it is called for
SpecReenter ==
  /\ InitWith({WithPost(WithSetter(EmptyConfig, "reenter"), "pass"),
               WithPost(WithSetter(WithMap(EmptyConfig), "reenter"), "pass"),
               WithDepth(WithPost(WithSetter(EmptyConfig, "reenter"), "pass"), DepthInf),
               WithGetter(WithPost(WithSetter(EmptyConfig, "reenter"), "pass"), "pass"),
               WithPost(WithSetter(EmptyConfig, "pass"), "assign"),
               WithPost(EmptyConfig, "assign"),
               WithDepth(WithPost(WithSetter(EmptyConfig, "pass"), "assign"), DepthInf)})
  /\ [][\/ \E keys \in {<<"foo">>, <<"bar">>, <<"bar", "foo">>}, r \in BOOLEAN,
              tpl \in {Prim(Undef), Prim(Num(3)), Prim(Num(0)), ObjA} :
            DoRegister(keys, tpl, r)
        \/ \E k \in TopKeys, tpl \in {Prim(Num(3)), Prim(Num(62)), ObjA} : DoWrite(k, tpl)
        \/ \E k \in TopKeys : DoDelete(k)]_vars

\* C39: a setter hook that, called for foo, reads front.foo and assigns the
\* registered key bar leaves the outer write as it is without the re-entry:
\* front.foo and backing.foo are what the same write gives with a hook that
\* only observes, the hooks of foo get the same arguments, the postSetter of
\* foo gets the prevVal and initial its setter got, and front.bar and
\* backing.bar hold the value assigned inside. A postSetter hook that assigns
\* front.foo = 9 once leaves front.foo and backing.foo at 9 when the outer
\* write returns.
ReentrantHooks ==
  [][LET After == [heap |-> heap', binds |-> binds', log |-> <<>>, gets |-> <<>>,
                   err |-> FALSE, stack |-> 0]
         Of(l, k) == SelectSeq(l, LAMBDA e : e.path[1] = k)
         Args(l) == [i \in 1..Len(l) |->
                       [h |-> l[i].h, path |-> l[i].path, val |-> l[i].val,
                        prevVal |-> l[i].prevVal, initial |-> l[i].initial,
                        seen |-> l[i].seen]]
         RECURSIVE Observed(_, _)
         Observed(M, i) ==
           IF i > Len(M.binds) THEN M
           ELSE Observed(IF M.binds[i].setter = "reenter"
                         THEN [M EXCEPT !.binds[i].setter = "pass"]
                         ELSE M, i + 1)
         Same(R) ==
           /\ ~R.err
           /\ View(After, ReadProp(After, Target, "foo")) = View(R, ReadProp(R, Target, "foo"))
           /\ View(After, MakeGetter(After, Endpoint, "foo"))
                = View(R, MakeGetter(R, Endpoint, "foo"))
           /\ Args(Of(log', "foo")) = Args(Of(R.log, "foo"))
         Inner(I) == WriteProp(Observed(I.m, 1), Target, "foo", I.v)
     IN /\ (/\ config.setter = "reenter"
            /\ last'.op = "write"
            /\ last'.keys = <<"foo">>
            /\ IsAccessor(Cur, Target, "bar"))
             => /\ ~err'
                /\ Same(Inner(Instantiate(Cur, last'.val)))
                /\ ReadProp(After, Target, "bar") = Num(5)
                /\ MakeGetter(After, Endpoint, "bar") = Num(5)
                /\ \E i, j \in 1..Len(log') :
                     /\ log'[i].h = "set" /\ log'[i].path = <<"foo">>
                     /\ log'[j].h = "post" /\ log'[j].path = <<"foo">>
                     /\ log'[j].prevVal = log'[i].prevVal
                     /\ log'[j].initial = log'[i].initial
                     /\ \E e \in (i + 1)..(j - 1) :
                          log'[e].h = "set" /\ log'[e].path = <<"bar">> /\ log'[e].val = Num(5)
        /\ (/\ config.setter = "reenter"
            /\ last'.op = "register"
            /\ last'.keys = <<"foo">>
            /\ last'.val.k = "prim" /\ last'.val # Prim(Undef)
            /\ IsAccessor(Cur, Target, "bar"))
             => /\ ~err'
                /\ ReadProp(After, Target, "foo") = last'.val.p
                /\ MakeGetter(After, Endpoint, "foo") = last'.val.p
                /\ ReadProp(After, Target, "bar") = Num(5)
                /\ MakeGetter(After, Endpoint, "bar") = Num(5)
                /\ \E i, j \in 1..Len(log') :
                     /\ log'[i].h = "set" /\ log'[i].path = <<"foo">> /\ log'[i].initial
                     /\ log'[j].h = "post" /\ log'[j].path = <<"foo">> /\ log'[j].initial
                     /\ log'[j].prevVal = log'[i].prevVal
        /\ (/\ config.postSetter = "assign"
            /\ last'.op \in {"register", "write"}
            /\ last'.val # Prim(Undef))
             => /\ ~err'
                /\ \A k \in TopKeys :
                     InList(k, last'.keys) =>
                       /\ ReadProp(After, Target, k) = Num(9)
                       /\ MakeGetter(After, Endpoint, k) = Num(9)
                       /\ Cardinality({e \in 1..Len(log') :
                                         log'[e].h = "post" /\ log'[e].path = <<k>>}) = 2
    ]_vars

\* C39 witness: with bar registered, a write to foo whose setter hook assigned
\* bar has returned: foo holds the outer value, bar the inner one
ReentrantHooksWitness ==
  /\ config.setter = "reenter"
  /\ config.depth.t = "inf"
  /\ last.op = "write"
  /\ last.keys = <<"foo">>
  /\ last.val = ObjA
  /\ ~err
  /\ ReadProp(Cur, Target, "bar") = Num(5)
  /\ MakeGetter(Cur, Endpoint, "bar") = Num(5)
  /\ DeepEqual(Cur, ReadProp(Cur, Target, "foo"), ObjA)
  /\ \E i \in 1..Len(log) : log[i].h = "post" /\ log[i].path = <<"bar">>


\* depth-enabled keys under the default filter and under Filter.any; the
\* caller assigns primitives, null, literals and class instances
SpecLeaf ==
  /\ InitWith({WithDepth(EmptyConfig, DepthInf),
               WithFilter(WithDepth(EmptyConfig, DepthInf), "any"),
               WithFilter(WithDepth(EmptyConfig, DepthNum(1)), "any"),
               WithFilter(WithDepth(EmptyConfig, DepthNum(1)), "literal")})
  /\ [][NextWith({Prim(Undef), Prim(Null), Prim(Num(3)), Prim(Str(1)), Prim(Bool(0)),
                  ObjA, InstA})]_vars

\* C40: after a primitive or null was registered for or assigned to a
\* depth-enabled key, under any depth filter, the backing slot holds exactly
\* that value, the front read returns exactly that value, and the accessor
\* holds no sub-tree.
PrimitiveIsLeaf ==
  (/\ last.op \in {"register", "write"}
   /\ last.val.k = "prim"
   /\ last.val.p # Undef
   /\ ~err)
    => \A k \in TopKeys :
         (InList(k, last.keys) /\ BindingOf(Cur, Target, k).hasDepth)
           => /\ MakeGetter(Cur, Endpoint, k) = last.val.p
              /\ ReadProp(Cur, Target, k) = last.val.p
              /\ BindingOf(Cur, Target, k).mode = "slot"

====
